---- MODULE Spec2Model ----
(***************************************************************************)
(* Model of src/src/index.ts: the HTTP session registry around the         *)
(* StreamableHTTPServerTransport instances (main, lines 761-868) and the   *)
(* CallToolRequestSchema handler with its three tool sequences             *)
(* (lines 89-109, 289-475, 564-758).                                       *)
(***************************************************************************)
EXTENDS Integers, Sequences, FiniteSets, TLC

\* ------------------------------------------------------------------------
\* Bounds of the model
\* ------------------------------------------------------------------------
\* Number of StreamableHTTPServerTransport instances ever constructed.
MaxTransports == 3

\* Number of tool invocations that may be in flight at once.
MaxCalls == 2

\* Largest number of data rows and of header columns a loaded source has.
MaxRows == 1

MaxCols == 3

\* Largest length of a caller-supplied column list.
MaxListLen == 2

\* Readings of Date.now() range over 0..MaxClock.
MaxClock == 1

\* Largest length of a PORT value.
MaxPortLen == 3

\* Largest number of rows of a charted row set.
MaxChartRows == 2

\* ------------------------------------------------------------------------
\* HTTP layer: values
\* ------------------------------------------------------------------------
\* JavaScript undefined: Map.get of a missing key, an absent header, an
\* unassigned let.
Undefined == 0

TransportIds == 1..MaxTransports

\* Values a client may put in the mcp-session-id header: every identifier the
\* generator can produce, plus one it never produces.
SessionIds == 1..(MaxTransports + 1)

Headers == {Undefined} \cup SessionIds

VARIABLES
    transports,       \* the registry Map<string, transport>: id -> transport or Undefined
    created,          \* number of transports constructed so far (they are 1..created)
    localSessionId,   \* per transport: the closure variable captured by its callbacks
    connecting,       \* transports whose POST handler is suspended in await server.connect
    uuidsIssued,      \* number of identifiers randomUUID has produced
    closedSessions,   \* identifiers whose registered transport's close notification fired
    ev                \* the handler step just taken and the answer it gave

httpVars == <<transports, created, localSessionId, connecting,
              uuidsIssued, closedSessions, ev>>

VARIABLES
    dirs,             \* directories that exist on the filesystem
    files,            \* artifacts on the filesystem: <<directory, filename>>
    now,              \* the last reading of Date.now()
    supabaseClient,   \* TRUE when SUPABASE_URL and SUPABASE_KEY were set at startup
    pc,               \* per invocation: the await it is suspended in, or idle / done
    call,             \* per invocation: tool name and parsed arguments
    local,            \* per invocation: csvData, timestamp, loop index
    log,              \* per invocation: the side effects it performed, in order
    out               \* per invocation: the response or the error thrown

VARIABLES
    loader            \* one call of readCSVFile: its position, timer, parser and result

VARIABLES
    main,             \* startup: process.env.PORT and the port handed to app.listen
    chart             \* one chartConfig: the row set, the target columns, the file written

toolVars == <<dirs, files, now, supabaseClient, pc, call, local, log, out, loader,
              main, chart>>

vars == <<httpVars, toolVars>>

\* The JSON body of a /health answer; empty for every other answer.
NoBody == [status |-> "", service |-> "", version |-> ""]

NoEvent == [op |-> "none", header |-> Undefined, init |-> FALSE,
            status |-> 0, to |-> Undefined, built |-> Undefined, body |-> NoBody]

Event(op, header, init, status, to, built) ==
    [op |-> op, header |-> header, init |-> init,
     status |-> status, to |-> to, built |-> built, body |-> NoBody]

\* ------------------------------------------------------------------------
\* HTTP layer: helpers
\* ------------------------------------------------------------------------
\* const transport = sessionId ? transports.get(sessionId) : undefined
LookupMutAnyTransport(sessionId) ==
    IF sessionId # Undefined /\ transports[sessionId] # Undefined
    THEN transports[sessionId]
    ELSE IF \E s \in SessionIds : transports[s] # Undefined
         THEN transports[CHOOSE s \in SessionIds : transports[s] # Undefined]
         ELSE Undefined

Lookup(sessionId) ==
    IF sessionId # Undefined THEN transports[sessionId] ELSE Undefined

\* sessionIdGenerator: () => randomUUID(): an identifier never produced before.
RandomUUIDMutRepeat == IF uuidsIssued = 0 THEN 1 ELSE uuidsIssued

RandomUUID == uuidsIssued + 1

\* onsessioninitialized: transports.set(sessionId, transport)
RegistrySet(sessionId, t) == [transports EXCEPT ![sessionId] = t]

\* transport.onclose: if (localSessionId) transports.delete(localSessionId)
OnCloseMutClear(t) ==
    IF localSessionId[t] # Undefined
    THEN [s \in SessionIds |-> Undefined]
    ELSE transports

OnClose(t) ==
    IF localSessionId[t] # Undefined
    THEN [transports EXCEPT ![localSessionId[t]] = Undefined]
    ELSE transports

\* ------------------------------------------------------------------------
\* HTTP layer: Init
\* ------------------------------------------------------------------------
HttpInit ==
    /\ transports = [s \in SessionIds |-> Undefined]
    /\ created = 0
    /\ localSessionId = [t \in TransportIds |-> Undefined]
    /\ connecting = {}
    /\ uuidsIssued = 0
    /\ closedSessions = {}
    /\ ev = NoEvent

\* ------------------------------------------------------------------------
\* HTTP layer: actions
\* ------------------------------------------------------------------------
\* The close notification of transport t runs the onclose callback.
FireOnClose(t) ==
    /\ transports' = OnClose(t)
    /\ closedSessions' =
         IF localSessionId[t] # Undefined /\ transports[localSessionId[t]] = t
         THEN closedSessions \cup {localSessionId[t]}
         ELSE closedSessions

\* app.post('/mcp') with a registered session: transport.handleRequest(req, res, body).
\* The transport answers an initialize request on an initialized session with 400.
PostRouted(header, init) ==
    /\ Lookup(header) # Undefined
    /\ ev' = Event("POST", header, init, IF init THEN 400 ELSE 200,
                   Lookup(header), Undefined)
    /\ UNCHANGED <<transports, created, localSessionId, connecting, uuidsIssued, closedSessions>>
    /\ UNCHANGED toolVars

\* Variant: an initialize request constructs a transport whatever the lookup found.
PostInitializeMutIgnoresLookup(header, init) ==
    /\ init
    /\ created < MaxTransports
    /\ created' = created + 1
    /\ connecting' = connecting \cup {created + 1}
    /\ ev' = Event("POST", header, init, 0, Undefined, created + 1)
    /\ UNCHANGED <<transports, localSessionId, uuidsIssued, closedSessions>>
    /\ UNCHANGED toolVars

\* app.post('/mcp'), no transport found, isInitializeRequest(req.body): construct
\* the transport, install onclose, suspend in await server.connect(transport).
PostInitialize(header, init) ==
    /\ Lookup(header) = Undefined
    /\ init
    /\ created < MaxTransports
    /\ created' = created + 1
    /\ connecting' = connecting \cup {created + 1}
    /\ ev' = Event("POST", header, init, 0, Undefined, created + 1)
    /\ UNCHANGED <<transports, localSessionId, uuidsIssued, closedSessions>>
    /\ UNCHANGED toolVars

\* app.post('/mcp'), no transport found, not an initialize request: 404.
PostRejected(header, init) ==
    /\ Lookup(header) = Undefined
    /\ ~init
    /\ ev' = Event("POST", header, init, 404, Undefined, Undefined)
    /\ UNCHANGED <<transports, created, localSessionId, connecting, uuidsIssued, closedSessions>>
    /\ UNCHANGED toolVars

PostMcp(header, init) ==
    \/ PostRouted(header, init)
    \/ PostInitialize(header, init)
    \/ PostRejected(header, init)

\* server.connect resolved; transport.handleRequest processes the initialize
\* request: the transport draws its identifier from sessionIdGenerator and calls
\* onsessioninitialized, which sets localSessionId and registers the transport.
ConnectResolvedInitialized(t) ==
    /\ t \in connecting
    /\ connecting' = connecting \ {t}
    /\ uuidsIssued' = uuidsIssued + 1
    /\ localSessionId' = [localSessionId EXCEPT ![t] = RandomUUID]
    /\ transports' = RegistrySet(RandomUUID, t)
    /\ ev' = Event("connected", Undefined, TRUE, 200, t, Undefined)
    /\ UNCHANGED <<created, closedSessions>>
    /\ UNCHANGED toolVars

\* Variant: the transport is registered when it is connected, not when its
\* session is initialized.
ConnectResolvedRefusedMutRegisters(t) ==
    /\ t \in connecting
    /\ connecting' = connecting \ {t}
    /\ uuidsIssued' = uuidsIssued + 1
    /\ transports' = RegistrySet(RandomUUID, t)
    /\ ev' = Event("connected", Undefined, TRUE, 406, t, Undefined)
    /\ UNCHANGED <<created, localSessionId, closedSessions>>
    /\ UNCHANGED toolVars

\* server.connect resolved; the transport refuses the request before it
\* initializes a session (unacceptable Accept or Content-Type header).
ConnectResolvedRefused(t) ==
    /\ t \in connecting
    /\ connecting' = connecting \ {t}
    /\ ev' = Event("connected", Undefined, TRUE, 406, t, Undefined)
    /\ UNCHANGED <<transports, created, localSessionId, uuidsIssued, closedSessions>>
    /\ UNCHANGED toolVars

\* server.connect rejected: the handler ends without calling handleRequest.
ConnectRejected(t) ==
    /\ t \in connecting
    /\ connecting' = connecting \ {t}
    /\ ev' = Event("connected", Undefined, TRUE, 500, Undefined, Undefined)
    /\ UNCHANGED <<transports, created, localSessionId, uuidsIssued, closedSessions>>
    /\ UNCHANGED toolVars

\* handleSession, transport not found: 404.
SessionRejected(method, header) ==
    /\ Lookup(header) = Undefined
    /\ ev' = Event(method, header, FALSE, 404, Undefined, Undefined)
    /\ UNCHANGED <<transports, created, localSessionId, connecting, uuidsIssued, closedSessions>>
    /\ UNCHANGED toolVars

\* handleSession for GET: the transport opens its stream.
SessionGet(method, header) ==
    /\ method = "GET"
    /\ Lookup(header) # Undefined
    /\ ev' = Event(method, header, FALSE, 200, Lookup(header), Undefined)
    /\ UNCHANGED <<transports, created, localSessionId, connecting, uuidsIssued, closedSessions>>
    /\ UNCHANGED toolVars

\* handleSession for DELETE: the transport closes itself, which fires onclose.
SessionDelete(method, header) ==
    /\ method = "DELETE"
    /\ Lookup(header) # Undefined
    /\ FireOnClose(Lookup(header))
    /\ ev' = Event(method, header, FALSE, 200, Lookup(header), Undefined)
    /\ UNCHANGED <<created, localSessionId, connecting, uuidsIssued>>
    /\ UNCHANGED toolVars

\* handleSession for DELETE: the transport refuses the request (unsupported
\* protocol version header) and stays open.
SessionDeleteRefused(method, header) ==
    /\ method = "DELETE"
    /\ Lookup(header) # Undefined
    /\ ev' = Event(method, header, FALSE, 400, Lookup(header), Undefined)
    /\ UNCHANGED <<transports, created, localSessionId, connecting, uuidsIssued, closedSessions>>
    /\ UNCHANGED toolVars

handleSession(method, header) ==
    \/ SessionRejected(method, header)
    \/ SessionGet(method, header)
    \/ SessionDelete(method, header)
    \/ SessionDeleteRefused(method, header)

\* The close notification of a constructed transport fires for a cause other
\* than DELETE (error, disconnect, shutdown).
TransportClose(t) ==
    /\ t \in 1..created
    /\ FireOnClose(t)
    /\ ev' = Event("close", Undefined, FALSE, 0, t, Undefined)
    /\ UNCHANGED <<created, localSessionId, connecting, uuidsIssued>>
    /\ UNCHANGED toolVars

\* res.status(200).json({status, service, version})
HealthBody == [status |-> "healthy", service |-> "mcp-csv-analysis-gemini",
               version |-> "1.0.0"]

\* Variant: the probe is answered like a session request.
HealthMutRequiresSession(header) ==
    /\ ev' = IF Lookup(header) = Undefined
             THEN Event("HEALTH", header, FALSE, 404, Undefined, Undefined)
             ELSE [Event("HEALTH", header, FALSE, 200, Undefined, Undefined)
                      EXCEPT !.body = HealthBody]
    /\ UNCHANGED <<transports, created, localSessionId, connecting, uuidsIssued, closedSessions>>
    /\ UNCHANGED toolVars

\* app.get('/health')
Health(header) ==
    /\ ev' = [Event("HEALTH", header, FALSE, 200, Undefined, Undefined)
                 EXCEPT !.body = HealthBody]
    /\ UNCHANGED <<transports, created, localSessionId, connecting, uuidsIssued, closedSessions>>
    /\ UNCHANGED toolVars

HttpNext ==
    \/ \E header \in Headers, init \in BOOLEAN : PostMcp(header, init)
    \/ \E t \in TransportIds : ConnectResolvedInitialized(t)
    \/ \E t \in TransportIds : ConnectResolvedRefused(t)
    \/ \E t \in TransportIds : ConnectRejected(t)
    \/ \E method \in {"GET", "DELETE"}, header \in Headers : handleSession(method, header)
    \/ \E t \in TransportIds : TransportClose(t)
    \/ \E header \in Headers : Health(header)

\* ------------------------------------------------------------------------
\* Tool layer: values
\* ------------------------------------------------------------------------
Calls == 1..MaxCalls

ToolNames == {"generate-thinking", "analyze-csv", "visualize-data"}

\* A key missing from the argument bundle, and a value that is not a string.
Absent == "<absent>"

NotAString == "<number>"

\* JavaScript null in a field that otherwise holds an artifact
Null == [dir |-> "", kind |-> "null", qual |-> "", ts |-> 0]

\* const outputDir = path.join(process.cwd(), 'output')
outputDir == "/cwd/output"

\* path.resolve(customOutputDir): relative names are resolved against the
\* working directory, absolute ones are kept.
Resolve(p) ==
    CASE p = "out2" -> "/cwd/out2"
      [] p = "output" -> "/cwd/output"
      [] OTHER -> p

OutputDirValues == {Absent, NotAString, "", "out2"}

AnalysisTypes == {"basic", "detailed"}

VisualizationTypes == {"bar", "line", "scatter", "pie"}

\* Header of a loaded source: its first k column names.
AllColumns == <<"c1", "c2", "c3", "c4", "c5">>

Header(k) == SubSeq(AllColumns, 1, k)

\* Names a caller may list: one that occurs in every source, one in none.
ListedNames == {"c1", "zz"}

ColumnLists == UNION {[1..n -> ListedNames] : n \in 0..MaxListLen}

\* The columns argument: missing, not an array of strings, or an array.
ColumnsValues ==
    {[kind |-> "absent", items |-> <<>>], [kind |-> "number", items |-> <<>>]}
    \cup {[kind |-> "array", items |-> l] : l \in ColumnLists}

NoArgs == [prompt |-> Absent, csvPath |-> Absent, outputDir |-> Absent,
           analysisType |-> Absent, visualizationType |-> Absent,
           columns |-> [kind |-> "absent", items |-> <<>>], title |-> Absent]

GenerateThinkingArgs ==
    {[NoArgs EXCEPT !.prompt = p, !.outputDir = d] :
        p \in {Absent, NotAString, "hello"}, d \in OutputDirValues}

AnalyzeCSVArgs ==
    {[NoArgs EXCEPT !.csvPath = c, !.outputDir = d, !.analysisType = a] :
        c \in {Absent, NotAString, "data.csv"}, d \in OutputDirValues,
        a \in {Absent, NotAString, "deep"} \cup AnalysisTypes}

VisualizeDataArgs ==
    {[NoArgs EXCEPT !.csvPath = c, !.outputDir = d, !.visualizationType = v,
                    !.columns = l, !.title = t] :
        c \in {Absent, NotAString, "data.csv"}, d \in OutputDirValues,
        v \in {Absent, "area", "line"},
        l \in ColumnsValues, t \in {Absent, NotAString, "T"}}

LoadErrors == {"InvalidReference", "FetchTimeout", "FetchFailed", "FetchRejected",
               "UnexpectedContentType", "MalformedSource", "LocalReadFailed"}

\* The calls that leave the process: source fetch, model, renderer, storage.
ExternalCalls == {"load", "model", "render", "upload", "sign"}

\* ------------------------------------------------------------------------
\* Tool layer: schemas (zod) and argument extraction
\* ------------------------------------------------------------------------
IsString(v) == v # Absent /\ v # NotAString

OptionalString(v) == v = Absent \/ IsString(v)

\* z.object({prompt: z.string(), outputDir: z.string().optional()})
GenerateThinkingSchemaMutOptional(args) == OptionalString(args.outputDir)

GenerateThinkingSchema(args) ==
    IsString(args.prompt) /\ OptionalString(args.outputDir)

\* z.object({csvPath, outputDir?, analysisType: enum.optional().default('detailed')})
AnalyzeCSVSchema(args) ==
    /\ IsString(args.csvPath)
    /\ OptionalString(args.outputDir)
    /\ args.analysisType \in {Absent} \cup AnalysisTypes

\* z.object({csvPath, outputDir?, visualizationType: enum.default('bar'),
\*           columns: z.array(z.string()).optional(), title?})
VisualizeDataSchema(args) ==
    /\ IsString(args.csvPath)
    /\ OptionalString(args.outputDir)
    /\ args.visualizationType \in {Absent} \cup VisualizationTypes
    /\ args.columns.kind \in {"absent", "array"}
    /\ OptionalString(args.title)

\* The inputSchema the server publishes for visualize-data (columns: minItems 2).
VisualizeDataInputSchema(args) ==
    /\ VisualizeDataSchema(args)
    /\ args.columns.kind = "array" => Len(args.columns.items) >= 2

SchemaOf(name, args) ==
    CASE name = "generate-thinking" -> GenerateThinkingSchema(args)
      [] name = "analyze-csv" -> AnalyzeCSVSchema(args)
      [] name = "visualize-data" -> VisualizeDataSchema(args)
      [] OTHER -> FALSE

\* const saveDir = customOutputDir ? path.resolve(customOutputDir) : outputDir
SaveDir(args) ==
    IF args.outputDir # Absent /\ args.outputDir # ""
    THEN Resolve(args.outputDir)
    ELSE outputDir

AnalysisTypeOf(args) ==
    IF args.analysisType = Absent THEN "detailed" ELSE args.analysisType

VisualizationTypeOf(args) ==
    IF args.visualizationType = Absent THEN "bar" ELSE args.visualizationType

\* Variant: the detailed prompt is sent whatever the depth.
generateEDAPromptsMutAlwaysTwo(analysisType) == <<"basicPrompt", "detailedPrompt">>

\* generateEDAPrompts: one prompt for basic, two otherwise.
generateEDAPrompts(analysisType) ==
    IF analysisType = "basic" THEN <<"basicPrompt">>
    ELSE <<"basicPrompt", "detailedPrompt">>

\* const columnsToVisualize = columns || availableColumns.slice(0, 2)
ColumnsToVisualize(args, availableColumns) ==
    IF args.columns.kind = "array"
    THEN args.columns.items
    ELSE SubSeq(availableColumns, 1,
                IF Len(availableColumns) < 2 THEN Len(availableColumns) ELSE 2)

\* ------------------------------------------------------------------------
\* Tool layer: state of one invocation
\* ------------------------------------------------------------------------
NoCall == [name |-> "", args |-> NoArgs]

NoLocal == [rows |-> 0, cols |-> <<>>, timestamp |-> 0, part |-> 0]

\* available: the columns an InsufficientColumns message lists.
NoOut == [status |-> "none", error |-> "", available |-> <<>>, parts |-> 0,
          savedFile |-> Null, configPath |-> Null, imagePath |-> Null,
          imageUrl |-> Null]

Thrown(e) == [NoOut EXCEPT !.status = "error", !.error = e]

\* Invocation i moves to newPc with these locals, effects and result.
Step(i, newPc, newLocal, effects, newOut) ==
    /\ pc' = [pc EXCEPT ![i] = newPc]
    /\ local' = [local EXCEPT ![i] = newLocal]
    /\ log' = [log EXCEPT ![i] = log[i] \o effects]
    /\ out' = [out EXCEPT ![i] = newOut]
    /\ UNCHANGED <<httpVars, loader, main, chart>>

\* if (!fs.existsSync(saveDir)) fs.mkdirSync(saveDir, { recursive: true })
EnsureDirEffects(saveDir) ==
    IF saveDir \in dirs THEN <<"ensureDir">> ELSE <<"mkdir", "ensureDir">>

\* ------------------------------------------------------------------------
\* Tool layer: the CallToolRequestSchema handler up to its first await
\* ------------------------------------------------------------------------
\* default: throw new Error(`Unknown tool: ${name}`)
CallToolUnknownMutMkdirFirst(i, name, args) ==
    /\ pc[i] = "idle"
    /\ name \notin ToolNames
    /\ call' = [call EXCEPT ![i] = [name |-> name, args |-> args]]
    /\ dirs' = dirs \cup {SaveDir(args)}
    /\ Step(i, "done", NoLocal, <<>>, Thrown("UnknownTool"))
    /\ UNCHANGED <<files, now, supabaseClient>>

CallToolUnknown(i, name, args) ==
    /\ pc[i] = "idle"
    /\ name \notin ToolNames
    /\ call' = [call EXCEPT ![i] = [name |-> name, args |-> args]]
    /\ Step(i, "done", NoLocal, <<>>, Thrown("UnknownTool"))
    /\ UNCHANGED <<dirs, files, now, supabaseClient>>

\* XxxSchema.parse(args) throws a ZodError
CallToolInvalid(i, name, args) ==
    /\ pc[i] = "idle"
    /\ name \in ToolNames
    /\ ~SchemaOf(name, args)
    /\ call' = [call EXCEPT ![i] = [name |-> name, args |-> args]]
    /\ Step(i, "done", NoLocal, <<>>, Thrown("InvalidArguments"))
    /\ UNCHANGED <<dirs, files, now, supabaseClient>>

\* fs.mkdirSync throws (permission denied, read-only filesystem)
CallToolMkdirFails(i, name, args) ==
    /\ pc[i] = "idle"
    /\ name \in ToolNames
    /\ SchemaOf(name, args)
    /\ SaveDir(args) \notin dirs
    /\ call' = [call EXCEPT ![i] = [name |-> name, args |-> args]]
    /\ Step(i, "done", NoLocal, <<"parse">>, Thrown("FsError"))
    /\ UNCHANGED <<dirs, files, now, supabaseClient>>

\* generate-thinking: parse, ensure the directory, startChat, sendMessage(prompt)
CallToolGenerate(i, name, args) ==
    /\ pc[i] = "idle"
    /\ name = "generate-thinking"
    /\ SchemaOf(name, args)
    /\ call' = [call EXCEPT ![i] = [name |-> name, args |-> args]]
    /\ dirs' = dirs \cup {SaveDir(args)}
    /\ Step(i, "model", NoLocal,
            <<"parse">> \o EnsureDirEffects(SaveDir(args)) \o <<"startChat", "model">>,
            NoOut)
    /\ UNCHANGED <<files, now, supabaseClient>>

\* analyze-csv and visualize-data: parse, ensure the directory, readCSVFile(csvPath)
CallToolLoadMutLoadFirst(i, name, args) ==
    /\ pc[i] = "idle"
    /\ name \in {"analyze-csv", "visualize-data"}
    /\ SchemaOf(name, args)
    /\ call' = [call EXCEPT ![i] = [name |-> name, args |-> args]]
    /\ dirs' = dirs \cup {SaveDir(args)}
    /\ Step(i, "load", NoLocal,
            <<"parse", "load">> \o EnsureDirEffects(SaveDir(args)), NoOut)
    /\ UNCHANGED <<files, now, supabaseClient>>

CallToolLoad(i, name, args) ==
    /\ pc[i] = "idle"
    /\ name \in {"analyze-csv", "visualize-data"}
    /\ SchemaOf(name, args)
    /\ call' = [call EXCEPT ![i] = [name |-> name, args |-> args]]
    /\ dirs' = dirs \cup {SaveDir(args)}
    /\ Step(i, "load", NoLocal,
            <<"parse">> \o EnsureDirEffects(SaveDir(args)) \o <<"load">>, NoOut)
    /\ UNCHANGED <<files, now, supabaseClient>>

ArgsFor(name) ==
    CASE name = "generate-thinking" -> GenerateThinkingArgs
      [] name = "analyze-csv" -> AnalyzeCSVArgs
      [] name = "visualize-data" -> VisualizeDataArgs
      [] OTHER -> GenerateThinkingArgs \cup AnalyzeCSVArgs

CallTool(i, name, args) ==
    \/ CallToolUnknown(i, name, args)
    \/ CallToolInvalid(i, name, args)
    \/ CallToolMkdirFails(i, name, args)
    \/ CallToolGenerate(i, name, args)
    \/ CallToolLoad(i, name, args)

\* ------------------------------------------------------------------------
\* Tool layer: artifacts
\* ------------------------------------------------------------------------
File(dir, kind, qual, ts) == [dir |-> dir, kind |-> kind, qual |-> qual, ts |-> ts]

\* `gemini_thinking_${timestamp}.txt`
ThinkingFile(dir, ts) == File(dir, "gemini_thinking", "txt", ts)

\* `csv_analysis_${timestamp}_part${i + 1}.txt`
PartFile(dir, ts, k) == File(dir, "csv_analysis", <<"part1", "part2">>[k], ts)

\* `csv_analysis_${timestamp}_summary.txt`
SummaryFile(dir, ts) == File(dir, "csv_analysis", "summary", ts)

\* `chart_config_${type}_${timestamp}.json`
ConfigFile(dir, type, ts) == File(dir, "chart_config", type, ts)

\* `chart_${type}_${timestamp}.png`
ImageFile(dir, type, ts) == File(dir, "chart", type, ts)

\* fs.writeFileSync succeeds when the directory exists and the write is not
\* refused by the filesystem (fsOk).
CanWrite(dir, fsOk) == dir \in dirs /\ fsOk

\* ------------------------------------------------------------------------
\* Tool layer: model call completions
\* ------------------------------------------------------------------------
\* Variant: analyze-csv skips a part whose model call failed and goes on to the
\* next prompt, or to the summary after the last one.
ModelFailedMutSkipsPart(i) ==
    LET saveDir == SaveDir(call[i].args)
        k == local[i].part
        prompts == generateEDAPrompts(AnalysisTypeOf(call[i].args))
    IN  /\ pc[i] = "model"
        /\ IF call[i].name # "analyze-csv"
           THEN /\ files' = files
                /\ Step(i, "done", local[i], <<"modelError">>, Thrown("ModelCallFailed"))
           ELSE IF k < Len(prompts)
           THEN /\ files' = files
                /\ Step(i, "model", [local[i] EXCEPT !.part = k + 1],
                        <<"modelError", "model">>, out[i])
           ELSE /\ files' = files \cup {SummaryFile(saveDir, local[i].timestamp)}
                /\ Step(i, "done", local[i], <<"modelError", "write">>,
                        [NoOut EXCEPT !.status = "ok", !.parts = k - 1,
                                      !.savedFile = SummaryFile(saveDir, local[i].timestamp)])
        /\ UNCHANGED <<dirs, now, supabaseClient, call>>

\* Variant: generate-thinking answers a failed model call with a fallback text
\* and saves it.
ModelFailedMutFallbackText(i) ==
    LET file == ThinkingFile(SaveDir(call[i].args), now)
    IN  /\ pc[i] = "model"
        /\ IF call[i].name = "generate-thinking" /\ SaveDir(call[i].args) \in dirs
           THEN /\ files' = files \cup {file}
                /\ Step(i, "done", [local[i] EXCEPT !.timestamp = now],
                        <<"modelError", "write">>,
                        [NoOut EXCEPT !.status = "ok", !.parts = 1, !.savedFile = file])
           ELSE /\ files' = files
                /\ Step(i, "done", local[i], <<"modelError">>, Thrown("ModelCallFailed"))
        /\ UNCHANGED <<dirs, now, supabaseClient, call>>

\* chatSession.sendMessage rejects (modelError): the handler rethrows.
ModelFailed(i) ==
    /\ pc[i] = "model"
    /\ Step(i, "done", local[i], <<"modelError">>, Thrown("ModelCallFailed"))
    /\ UNCHANGED <<dirs, files, now, supabaseClient, call>>

\* Variant: a failed write of the response is caught and the invocation
\* answers as if the file had been saved.
GenerateDoneMutSwallowsWrite(i, t, fsOk) ==
    LET saveDir == SaveDir(call[i].args)
        file == ThinkingFile(saveDir, t)
    IN  /\ pc[i] = "model"
        /\ call[i].name = "generate-thinking"
        /\ now' = t
        /\ files' = IF CanWrite(saveDir, fsOk) THEN files \cup {file} ELSE files
        /\ Step(i, "done", [local[i] EXCEPT !.timestamp = t], <<"write">>,
                [NoOut EXCEPT !.status = "ok", !.parts = 1, !.savedFile = file])
        /\ UNCHANGED <<dirs, supabaseClient, call>>

\* generate-thinking: the response is written to gemini_thinking_<t>.txt, t the
\* reading of Date.now()
GenerateDone(i, t, fsOk) ==
    LET saveDir == SaveDir(call[i].args)
        file == ThinkingFile(saveDir, t)
    IN  /\ pc[i] = "model"
        /\ call[i].name = "generate-thinking"
        /\ now' = t
        /\ IF CanWrite(saveDir, fsOk)
           THEN /\ files' = files \cup {file}
                /\ Step(i, "done", [local[i] EXCEPT !.timestamp = t], <<"write">>,
                        [NoOut EXCEPT !.status = "ok", !.parts = 1, !.savedFile = file])
           ELSE /\ files' = files
                /\ Step(i, "done", [local[i] EXCEPT !.timestamp = t], <<"write">>,
                        Thrown("FsError"))
        /\ UNCHANGED <<dirs, supabaseClient, call>>

\* analyze-csv: response i is written to its part file; then either the next
\* prompt is sent or the summary is written and the invocation returns.
AnalyzePartDone(i, fsOk, fsOk2) ==
    LET saveDir == SaveDir(call[i].args)
        ts == local[i].timestamp
        k == local[i].part
        prompts == generateEDAPrompts(AnalysisTypeOf(call[i].args))
    IN  /\ pc[i] = "model"
        /\ call[i].name = "analyze-csv"
        /\ IF ~CanWrite(saveDir, fsOk)
           THEN /\ files' = files
                /\ Step(i, "done", local[i], <<"write">>, Thrown("FsError"))
           ELSE IF k < Len(prompts)
           THEN /\ files' = files \cup {PartFile(saveDir, ts, k)}
                /\ Step(i, "model", [local[i] EXCEPT !.part = k + 1],
                        <<"write", "model">>, [out[i] EXCEPT !.parts = k])
           ELSE IF ~CanWrite(saveDir, fsOk2)
           THEN /\ files' = files \cup {PartFile(saveDir, ts, k)}
                /\ Step(i, "done", local[i], <<"write", "write">>, Thrown("FsError"))
           ELSE /\ files' = files \cup {PartFile(saveDir, ts, k), SummaryFile(saveDir, ts)}
                /\ Step(i, "done", local[i], <<"write", "write">>,
                        [NoOut EXCEPT !.status = "ok", !.parts = k,
                                      !.savedFile = SummaryFile(saveDir, ts)])
        /\ UNCHANGED <<dirs, now, supabaseClient, call>>

\* ------------------------------------------------------------------------
\* Tool layer: source load completions
\* ------------------------------------------------------------------------
\* Variant: a loader error is swallowed and the analysis goes on.
LoadFailedMutSwallowed(i, e) ==
    /\ pc[i] = "load"
    /\ Step(i, "model", [local[i] EXCEPT !.part = 1], <<"model">>, out[i])
    /\ UNCHANGED <<dirs, files, now, supabaseClient, call>>

\* readCSVFile throws a classified error: the handler rethrows.
LoadFailed(i, e) ==
    /\ pc[i] = "load"
    /\ Step(i, "done", local[i], <<>>, Thrown(e))
    /\ UNCHANGED <<dirs, files, now, supabaseClient, call>>

\* Variant: an empty row set is passed on to the analysis.
LoadEmptyMutContinues(i) ==
    /\ pc[i] = "load"
    /\ Step(i, "model", [local[i] EXCEPT !.part = 1], <<"loaded", "model">>, out[i])
    /\ UNCHANGED <<dirs, files, now, supabaseClient, call>>

\* readCSVFile returns no rows: 'CSV file is empty or could not be parsed'
LoadEmpty(i) ==
    /\ pc[i] = "load"
    /\ Step(i, "done", local[i], <<"loaded">>, Thrown("EmptySource"))
    /\ UNCHANGED <<dirs, files, now, supabaseClient, call>>

\* Variant: every prompt is sent at once, before any response is awaited.
AnalyzeLoadedMutSendsAll(i, rows, cols, t) ==
    /\ pc[i] = "load"
    /\ call[i].name = "analyze-csv"
    /\ now' = t
    /\ Step(i, "model",
            [rows |-> rows, cols |-> Header(cols), timestamp |-> t,
             part |-> Len(generateEDAPrompts(AnalysisTypeOf(call[i].args)))],
            <<"loaded", "startChat">>
                \o [k \in DOMAIN generateEDAPrompts(AnalysisTypeOf(call[i].args)) |-> "model"],
            out[i])
    /\ UNCHANGED <<dirs, files, supabaseClient, call>>

\* analyze-csv: rows loaded; prompts built, chat started, first prompt sent.
AnalyzeLoaded(i, rows, cols, t) ==
    /\ pc[i] = "load"
    /\ call[i].name = "analyze-csv"
    /\ now' = t
    /\ Step(i, "model",
            [rows |-> rows, cols |-> Header(cols), timestamp |-> t, part |-> 1],
            <<"loaded", "startChat", "model">>, out[i])
    /\ UNCHANGED <<dirs, files, supabaseClient, call>>

\* visualize-data: fewer than 2 columns to visualize.
VisualizeInsufficient(i, rows, cols) ==
    /\ pc[i] = "load"
    /\ call[i].name = "visualize-data"
    /\ Len(ColumnsToVisualize(call[i].args, Header(cols))) < 2
    /\ Step(i, "done",
            [rows |-> rows, cols |-> Header(cols), timestamp |-> 0, part |-> 0],
            <<"loaded">>,
            [Thrown("InsufficientColumns") EXCEPT !.available = Header(cols)])
    /\ UNCHANGED <<dirs, files, now, supabaseClient, call>>

\* ------------------------------------------------------------------------
\* Tool layer: createVisualizationWithImage
\* ------------------------------------------------------------------------
\* What createVisualizationWithImage returns, given the files then on disk:
\* imagePath: fs.existsSync(imagePath) ? imagePath : null
VisualizationResult(i, ts, filesNow, imageUrl) ==
    LET saveDir == SaveDir(call[i].args)
        type == VisualizationTypeOf(call[i].args)
    IN  [NoOut EXCEPT !.status = "ok",
                      !.configPath = ConfigFile(saveDir, type, ts),
                      !.imagePath = IF ImageFile(saveDir, type, ts) \in filesNow
                                    THEN ImageFile(saveDir, type, ts) ELSE Null,
                      !.imageUrl = imageUrl]

\* Variant: the number of columns to visualize is not tested.
VisualizeLoadedMutNoColumnCheck(i, rows, cols, t, fsOk, scriptExists) ==
    LET saveDir == SaveDir(call[i].args)
        type == VisualizationTypeOf(call[i].args)
        loc == [rows |-> rows, cols |-> Header(cols), timestamp |-> t, part |-> 0]
    IN  /\ pc[i] = "load"
        /\ call[i].name = "visualize-data"
        /\ now' = t
        /\ IF ~CanWrite(saveDir, fsOk)
           THEN /\ files' = files
                /\ Step(i, "done", loc, <<"loaded", "write">>, Thrown("FsError"))
           ELSE /\ files' = files \cup {ConfigFile(saveDir, type, t)}
                /\ IF scriptExists
                   THEN Step(i, "render", loc, <<"loaded", "write", "render">>, out[i])
                   ELSE Step(i, "done", loc, <<"loaded", "write", "renderError">>,
                             VisualizationResult(i, t, files', Null))
        /\ UNCHANGED <<dirs, supabaseClient, call>>

\* Variant: the names to visualize must be columns of the row set.
VisualizeLoadedMutChecksNames(i, rows, cols, t, fsOk, scriptExists) ==
    LET saveDir == SaveDir(call[i].args)
        type == VisualizationTypeOf(call[i].args)
        loc == [rows |-> rows, cols |-> Header(cols), timestamp |-> t, part |-> 0]
        names == ColumnsToVisualize(call[i].args, Header(cols))
        known == \A k \in 1..Len(names) : \E j \in 1..cols : names[k] = Header(cols)[j]
    IN  /\ pc[i] = "load"
        /\ call[i].name = "visualize-data"
        /\ Len(names) >= 2
        /\ IF ~known
           THEN /\ files' = files /\ now' = now
                /\ Step(i, "done", [loc EXCEPT !.timestamp = 0], <<"loaded">>,
                        [Thrown("InsufficientColumns") EXCEPT !.available = Header(cols)])
           ELSE IF ~CanWrite(saveDir, fsOk)
           THEN /\ files' = files /\ now' = t
                /\ Step(i, "done", loc, <<"loaded", "write">>, Thrown("FsError"))
           ELSE /\ files' = files \cup {ConfigFile(saveDir, type, t)} /\ now' = t
                /\ IF scriptExists
                   THEN Step(i, "render", loc, <<"loaded", "write", "render">>, out[i])
                   ELSE Step(i, "done", loc, <<"loaded", "write", "renderError">>,
                             VisualizationResult(i, t, files', Null))
        /\ UNCHANGED <<dirs, supabaseClient, call>>

\* visualize-data: rows loaded, at least 2 columns; the configuration artifact
\* is written and the renderer is started, unless its script is missing.
VisualizeLoaded(i, rows, cols, t, fsOk, scriptExists) ==
    LET saveDir == SaveDir(call[i].args)
        type == VisualizationTypeOf(call[i].args)
        loc == [rows |-> rows, cols |-> Header(cols), timestamp |-> t, part |-> 0]
    IN  /\ pc[i] = "load"
        /\ call[i].name = "visualize-data"
        /\ Len(ColumnsToVisualize(call[i].args, Header(cols))) >= 2
        /\ now' = t
        /\ IF ~CanWrite(saveDir, fsOk)
           THEN /\ files' = files
                /\ Step(i, "done", loc, <<"loaded", "write">>, Thrown("FsError"))
           ELSE /\ files' = files \cup {ConfigFile(saveDir, type, t)}
                /\ IF scriptExists
                   THEN Step(i, "render", loc, <<"loaded", "write", "render">>, out[i])
                   ELSE Step(i, "done", loc, <<"loaded", "write", "renderError">>,
                             VisualizationResult(i, t, files', Null))
        /\ UNCHANGED <<dirs, supabaseClient, call>>

\* Variant: the upload is attempted after a failed render when an image is on disk.
RenderFailedMutUploads(i, wrote) ==
    LET saveDir == SaveDir(call[i].args)
        image == ImageFile(saveDir, VisualizationTypeOf(call[i].args), local[i].timestamp)
    IN  /\ pc[i] = "render"
        /\ files' = IF wrote THEN files \cup {image} ELSE files
        /\ IF image \in files' /\ supabaseClient
           THEN Step(i, "upload", local[i], <<"renderError", "upload">>, out[i])
           ELSE Step(i, "done", local[i], <<"renderError">>,
                     VisualizationResult(i, local[i].timestamp, files', Null))
        /\ UNCHANGED <<dirs, now, supabaseClient, call>>

\* Variant: a renderer failure is rethrown to the caller.
RenderFailedMutThrows(i, wrote) ==
    LET saveDir == SaveDir(call[i].args)
        image == ImageFile(saveDir, VisualizationTypeOf(call[i].args), local[i].timestamp)
    IN  /\ pc[i] = "render"
        /\ files' = IF wrote THEN files \cup {image} ELSE files
        /\ Step(i, "done", local[i], <<"renderError">>, Thrown("RenderFailed"))
        /\ UNCHANGED <<dirs, now, supabaseClient, call>>

\* execFile rejects; the renderer may still have written the image (wrote).
\* The catch block logs 'Error rendering/uploading image'.
RenderFailed(i, wrote) ==
    LET saveDir == SaveDir(call[i].args)
        image == ImageFile(saveDir, VisualizationTypeOf(call[i].args), local[i].timestamp)
    IN  /\ pc[i] = "render"
        /\ files' = IF wrote THEN files \cup {image} ELSE files
        /\ Step(i, "done", local[i], <<"renderError">>,
                VisualizationResult(i, local[i].timestamp, files', Null))
        /\ UNCHANGED <<dirs, now, supabaseClient, call>>

\* Variant: the upload is started without fs.existsSync(imagePath).
RenderDoneMutNoExistsCheck(i, wrote, readOk) ==
    LET saveDir == SaveDir(call[i].args)
        image == ImageFile(saveDir, VisualizationTypeOf(call[i].args), local[i].timestamp)
    IN  /\ pc[i] = "render"
        /\ files' = IF wrote THEN files \cup {image} ELSE files
        /\ IF supabaseClient /\ readOk
           THEN Step(i, "upload", local[i], <<"rendered", "upload">>, out[i])
           ELSE IF supabaseClient
           THEN Step(i, "done", local[i], <<"rendered", "uploadError">>,
                     VisualizationResult(i, local[i].timestamp, files', Null))
           ELSE Step(i, "done", local[i], <<"rendered">>,
                     VisualizationResult(i, local[i].timestamp, files', Null))
        /\ UNCHANGED <<dirs, now, supabaseClient, call>>

\* Variant: uploadToSupabase does not test for a storage client.
RenderDoneMutNoClientCheck(i, wrote, readOk) ==
    LET saveDir == SaveDir(call[i].args)
        image == ImageFile(saveDir, VisualizationTypeOf(call[i].args), local[i].timestamp)
    IN  /\ pc[i] = "render"
        /\ files' = IF wrote THEN files \cup {image} ELSE files
        /\ IF image \in files' /\ readOk
           THEN Step(i, "upload", local[i], <<"rendered", "upload">>, out[i])
           ELSE Step(i, "done", local[i], <<"rendered">>,
                     VisualizationResult(i, local[i].timestamp, files', Null))
        /\ UNCHANGED <<dirs, now, supabaseClient, call>>

\* execFile resolves ('Chart image rendered successfully'). If the image exists
\* uploadToSupabase is called: it returns null without a client or when the
\* image cannot be read, else it starts the upload.
RenderDone(i, wrote, readOk) ==
    LET saveDir == SaveDir(call[i].args)
        image == ImageFile(saveDir, VisualizationTypeOf(call[i].args), local[i].timestamp)
    IN  /\ pc[i] = "render"
        /\ files' = IF wrote THEN files \cup {image} ELSE files
        /\ IF image \in files' /\ supabaseClient /\ readOk
           THEN Step(i, "upload", local[i], <<"rendered", "upload">>, out[i])
           ELSE IF image \in files' /\ supabaseClient
           THEN Step(i, "done", local[i], <<"rendered", "uploadError">>,
                     VisualizationResult(i, local[i].timestamp, files', Null))
           ELSE Step(i, "done", local[i], <<"rendered">>,
                     VisualizationResult(i, local[i].timestamp, files', Null))
        /\ UNCHANGED <<dirs, now, supabaseClient, call>>

\* Variant: a storage failure is raised to the caller.
UploadFailedMutThrows(i) ==
    /\ pc[i] = "upload"
    /\ Step(i, "done", local[i], <<"uploadError">>, Thrown("UploadFailed"))
    /\ UNCHANGED <<dirs, files, now, supabaseClient, call>>

\* storage.upload returns an error or throws: uploadToSupabase logs the error
\* and returns null.
UploadFailed(i) ==
    /\ pc[i] = "upload"
    /\ Step(i, "done", local[i], <<"uploadError">>,
            VisualizationResult(i, local[i].timestamp, files, Null))
    /\ UNCHANGED <<dirs, files, now, supabaseClient, call>>

\* storage.upload succeeds: createSignedUrl is called.
UploadDone(i) ==
    /\ pc[i] = "upload"
    /\ Step(i, "sign", local[i], <<"sign">>, out[i])
    /\ UNCHANGED <<dirs, files, now, supabaseClient, call>>

\* createSignedUrl returns an error or throws: uploadToSupabase logs the error
\* and returns null.
SignFailed(i) ==
    /\ pc[i] = "sign"
    /\ Step(i, "done", local[i], <<"signError">>,
            VisualizationResult(i, local[i].timestamp, files, Null))
    /\ UNCHANGED <<dirs, files, now, supabaseClient, call>>

\* createSignedUrl succeeds: the signed URL of the uploaded image is returned.
SignDone(i) ==
    LET saveDir == SaveDir(call[i].args)
        image == ImageFile(saveDir, VisualizationTypeOf(call[i].args), local[i].timestamp)
    IN  /\ pc[i] = "sign"
        /\ Step(i, "done", local[i], <<>>,
                VisualizationResult(i, local[i].timestamp, files, image))
        /\ UNCHANGED <<dirs, files, now, supabaseClient, call>>

\* The renderedImage field of the visualize-data response: an object with the
\* path and the signed URL when the result has an image path, else null.
NoRenderedImage == [present |-> FALSE, path |-> Null, url |-> Null]

RenderedImage(result) ==
    IF result.imagePath # Null
    THEN [present |-> TRUE, path |-> result.imagePath, url |-> result.imageUrl]
    ELSE NoRenderedImage

\* Readings Date.now() may give: the clock never runs backwards.
DateNow == now..MaxClock

\* ------------------------------------------------------------------------
\* Source loader: readCSVFile
\* ------------------------------------------------------------------------
\* The variables of the tool handler, which a call of readCSVFile leaves alone.
handlerVars == <<dirs, files, now, supabaseClient, pc, call, local, log, out>>

\* Source references: a local path, a URL that new URL() accepts, and a
\* string with an http(s):// prefix that new URL() rejects.
References == {"data.csv", "https://host/data.csv", "http://"}

\* filePath.startsWith('http://') || filePath.startsWith('https://')
IsURL(filePath) == filePath \in {"https://host/data.csv", "http://"}

\* new URL(filePath) returns
URLParses(filePath) == filePath = "https://host/data.csv"

\* HTTP statuses a server answers with; response.ok is 200..299
Statuses == {200, 204, 404, 500}

ResponseOk(status) == status >= 200 /\ status <= 299

\* Values of the content-type header; '' when the header is missing
ContentTypes == {"", "text/csv", "text/html; charset=utf-8", "application/xhtml+xml"}

\* contentType.includes('text/html') || contentType.includes('application/xhtml')
DeclaresHTML(contentType) ==
    contentType \in {"text/html; charset=utf-8", "application/xhtml+xml"}

\* Header rows csv-parser may read from a body: the keys of every row it emits.
HeaderRows == {<<"c1", "c2">>, <<"<!DOCTYPE html>">>, <<"c1", "<html lang=en>">>,
               <<"<!doctype html>">>}

\* col.includes('<!DOCTYPE') || col.includes('<html') || col.includes('<HTML')
\* || col.includes('<head') || col.includes('<body')
IncludesHTMLTag(col) == col \in {"<!DOCTYPE html>", "<html lang=en>"}

\* columns.some(col => ...)
hasHTMLTags(columns) == \E k \in DOMAIN columns : IncludesHTMLTag(columns[k])

NoResponse == [status |-> 0, body |-> FALSE, contentType |-> ""]

NoError == [name |-> "", site |-> "", code |-> 0]

\* An error object: its name and the throw statement or collaborator it comes from.
ErrorAt(name, site, code) == [name |-> name, site |-> site, code |-> code]

NoReturn == [status |-> "none", class |-> "", cause |-> NoError, rows |-> 0]

\* readCSVFile returns results
Returned(n) == [NoReturn EXCEPT !.status = "rows", !.rows = n]

\* readCSVFile throws the Error built by the throw statement of this class;
\* cause is the error that statement embeds in its message, if any.
Failure(class, cause) == [NoReturn EXCEPT !.status = "error", !.class = class, !.cause = cause]

\* Variant: every caught error is rethrown as a fetch failure.
FetchCatchMutNoAbortTest(fetchError) == Failure("FetchFailed", fetchError)

\* catch (fetchError): an AbortError becomes 'Timeout exceeded', every other
\* error caught becomes 'Failed to fetch CSV from URL: <path> - <its message>'.
FetchCatch(fetchError) ==
    IF fetchError.name = "AbortError"
    THEN Failure("FetchTimeout", fetchError)
    ELSE Failure("FetchFailed", fetchError)

NoLoader == [pc |-> "idle", filePath |-> "", timer |-> "unset", cleared |-> FALSE, fetches |-> 0,
             aborted |-> FALSE, response |-> NoResponse, parser |-> FALSE,
             header |-> <<>>, results |-> 0, ret |-> NoReturn]

LoaderInit == loader = NoLoader

\* Variant: the abort timer is armed before the URL is parsed.
ReadInvalidURLMutTimerFirst(filePath) ==
    /\ loader.pc = "idle"
    /\ IsURL(filePath) /\ ~URLParses(filePath)
    /\ loader' = [loader EXCEPT !.pc = "done", !.filePath = filePath,
                                !.timer = "cleared",
                                !.ret = Failure("InvalidReference", NoError)]
    /\ UNCHANGED <<httpVars, handlerVars, main, chart>>

\* new URL(filePath) throws: 'Invalid URL: <path>'
ReadInvalidURL(filePath) ==
    /\ loader.pc = "idle"
    /\ IsURL(filePath) /\ ~URLParses(filePath)
    /\ loader' = [loader EXCEPT !.pc = "done", !.filePath = filePath,
                                !.ret = Failure("InvalidReference", NoError)]
    /\ UNCHANGED <<httpVars, handlerVars, main, chart>>

\* The URL parses: the abort timer is armed and fetch is called.
ReadURL(filePath) ==
    /\ loader.pc = "idle"
    /\ IsURL(filePath) /\ URLParses(filePath)
    /\ loader' = [loader EXCEPT !.pc = "fetch", !.filePath = filePath,
                                !.timer = "armed", !.fetches = loader.fetches + 1]
    /\ UNCHANGED <<httpVars, handlerVars, main, chart>>

\* A local path: createReadStream(filePath) is piped into csv().
ReadLocal(filePath) ==
    /\ loader.pc = "idle"
    /\ ~IsURL(filePath)
    /\ loader' = [loader EXCEPT !.pc = "read", !.filePath = filePath, !.parser = TRUE]
    /\ UNCHANGED <<httpVars, handlerVars, main, chart>>

\* setTimeout(() => controller.abort(), timeoutMs) expires before
\* clearTimeout was called.
TimerFires ==
    /\ loader.timer = "armed"
    /\ loader' = [loader EXCEPT !.timer = "fired", !.aborted = TRUE]
    /\ UNCHANGED <<httpVars, handlerVars, main, chart>>

\* fetch rejects with an AbortError because the signal was aborted; the catch
\* calls clearTimeout on the expired timer.
FetchAborted ==
    /\ loader.pc = "fetch"
    /\ loader.aborted
    /\ loader' = [loader EXCEPT !.pc = "done", !.cleared = TRUE,
                                !.ret = FetchCatch(ErrorAt("AbortError", "fetch", 0))]
    /\ UNCHANGED <<httpVars, handlerVars, main, chart>>

\* fetch rejects and the catch rethrows without clearTimeout.
FetchRejectsMutNoClear ==
    /\ loader.pc = "fetch"
    /\ ~loader.aborted
    /\ loader' = [loader EXCEPT !.pc = "done",
                                !.ret = FetchCatch(ErrorAt("TypeError", "fetch", 0))]
    /\ UNCHANGED <<httpVars, handlerVars, main, chart>>

\* fetch rejects with a network error (DNS, connection refused or reset); the
\* catch clears the timer.
FetchRejects ==
    /\ loader.pc = "fetch"
    /\ ~loader.aborted
    /\ loader' = [loader EXCEPT !.pc = "done", !.timer = "cleared", !.cleared = TRUE,
                                !.ret = FetchCatch(ErrorAt("TypeError", "fetch", 0))]
    /\ UNCHANGED <<httpVars, handlerVars, main, chart>>

\* fetch resolves with the response headers: the timer is cleared, then the
\* status, the body and the content type are tested; each test throws inside
\* the try, so its error is caught by catch (fetchError). Otherwise the body is
\* piped into csv().
FetchResponds(status, body, contentType) ==
    LET response == [status |-> status, body |-> body, contentType |-> contentType]
        answered == [loader EXCEPT !.timer = "cleared", !.cleared = TRUE,
                                  !.response = response]
    IN  /\ loader.pc = "fetch"
        /\ ~loader.aborted
        /\ loader' =
             IF ~ResponseOk(status)
             THEN [answered EXCEPT !.pc = "done",
                       !.ret = FetchCatch(ErrorAt("Error", "FetchRejected", status))]
             ELSE IF ~body
             THEN [answered EXCEPT !.pc = "done",
                       !.ret = FetchCatch(ErrorAt("Error", "NullBody", 0))]
             ELSE IF DeclaresHTML(contentType)
             THEN [answered EXCEPT !.pc = "done",
                       !.ret = FetchCatch(ErrorAt("Error", "UnexpectedContentType", 0))]
             ELSE [answered EXCEPT !.pc = "pipe", !.parser = TRUE]
        /\ UNCHANGED <<httpVars, handlerVars, main, chart>>

\* csv-parser reads the first line of the stream: the header row.
ParserHeader(header) ==
    /\ loader.pc \in {"pipe", "read"}
    /\ loader.header = <<>>
    /\ loader' = [loader EXCEPT !.header = header]
    /\ UNCHANGED <<httpVars, handlerVars, main, chart>>

\* parser.on('data', data => results.push(data)): one more row, keyed by the header.
ParserData ==
    /\ loader.pc \in {"pipe", "read"}
    /\ loader.header # <<>>
    /\ loader.results < MaxRows
    /\ loader' = [loader EXCEPT !.results = loader.results + 1]
    /\ UNCHANGED <<httpVars, handlerVars, main, chart>>

\* The body of the response ends and pipeline resolves: the columns of the
\* first row are inspected when there is one, then results is returned.
FetchPipelineResolves ==
    /\ loader.pc = "pipe"
    /\ loader' = [loader EXCEPT !.pc = "done",
                      !.ret = IF loader.results > 0 /\ hasHTMLTags(loader.header)
                              THEN FetchCatch(ErrorAt("Error", "MalformedSource", 0))
                              ELSE Returned(loader.results)]
    /\ UNCHANGED <<httpVars, handlerVars, main, chart>>

\* The body stream or the parser fails and pipeline rejects.
FetchPipelineRejects ==
    /\ loader.pc = "pipe"
    /\ loader' = [loader EXCEPT !.pc = "done",
                      !.ret = FetchCatch(ErrorAt("Error", "pipeline", 0))]
    /\ UNCHANGED <<httpVars, handlerVars, main, chart>>

\* The file ends and pipeline resolves: results is returned.
LocalPipelineResolves ==
    /\ loader.pc = "read"
    /\ loader' = [loader EXCEPT !.pc = "done", !.ret = Returned(loader.results)]
    /\ UNCHANGED <<httpVars, handlerVars, main, chart>>

\* The file cannot be opened or read: 'Error reading local CSV file'
LocalPipelineRejects ==
    /\ loader.pc = "read"
    /\ loader' = [loader EXCEPT !.pc = "done",
                      !.ret = Failure("LocalReadFailed", ErrorAt("Error", "pipeline", 0))]
    /\ UNCHANGED <<httpVars, handlerVars, main, chart>>

\* A call of readCSVFile and the events it waits for.
LoaderNext ==
    \/ \E filePath \in References : ReadInvalidURL(filePath)
    \/ \E filePath \in References : ReadURL(filePath)
    \/ \E filePath \in References : ReadLocal(filePath)
    \/ TimerFires
    \/ FetchAborted
    \/ FetchRejects
    \/ \E status \in Statuses, body \in BOOLEAN, contentType \in ContentTypes :
         FetchResponds(status, body, contentType)
    \/ \E header \in HeaderRows : ParserHeader(header)
    \/ ParserData
    \/ FetchPipelineResolves
    \/ FetchPipelineRejects
    \/ LocalPipelineResolves
    \/ LocalPipelineRejects

\* ------------------------------------------------------------------------
\* JavaScript numbers and strings
\* ------------------------------------------------------------------------
\* A number value: an integer or NaN.
Num(n) == [nan |-> FALSE, n |-> n]

NaN == [nan |-> TRUE, n |-> 0]

\* Strings are sequences of characters.
Digits == {"8"}

DigitValue(c) == IF c = "8" THEN 8 ELSE 0

WhiteSpace == {" "}

\* Length of the longest prefix of s made of decimal digits.
RECURSIVE DigitPrefixLen(_)
DigitPrefixLen(s) ==
    IF s = <<>> \/ Head(s) \notin Digits THEN 0 ELSE 1 + DigitPrefixLen(Tail(s))

\* The number the first k characters of s, all digits, denote in base 10.
RECURSIVE DecimalValue(_, _)
DecimalValue(s, k) ==
    IF k = 0 THEN 0 ELSE DecimalValue(s, k - 1) * 10 + DigitValue(s[k])

RECURSIVE TrimStart(_)
TrimStart(s) ==
    IF s # <<>> /\ Head(s) \in WhiteSpace THEN TrimStart(Tail(s)) ELSE s

RECURSIVE TrimEnd(_)
TrimEnd(s) ==
    IF s # <<>> /\ s[Len(s)] \in WhiteSpace THEN TrimEnd(SubSeq(s, 1, Len(s) - 1)) ELSE s

\* parseInt(s, 10): leading white space is skipped, a sign is read, then the
\* longest run of digits; whatever follows the digits is ignored; NaN when
\* there is no digit.
parseInt(s) ==
    LET t == TrimStart(s)
        neg == t # <<>> /\ Head(t) = "-"
        u == IF neg THEN Tail(t) ELSE t
        k == DigitPrefixLen(u)
    IN  IF k = 0 THEN NaN
        ELSE Num(IF neg THEN 0 - DecimalValue(u, k) ELSE DecimalValue(u, k))

\* Number(s) of a string: white space is trimmed at both ends, the empty
\* string is 0, a signed run of digits is its value, anything else is NaN.
StringToNumber(s) ==
    LET t == TrimEnd(TrimStart(s))
        neg == t # <<>> /\ Head(t) = "-"
        u == IF neg THEN Tail(t) ELSE t
        k == DigitPrefixLen(u)
    IN  IF t = <<>> THEN Num(0)
        ELSE IF k = 0 \/ k # Len(u) THEN NaN
        ELSE Num(IF neg THEN 0 - DecimalValue(u, k) ELSE DecimalValue(u, k))

\* ------------------------------------------------------------------------
\* Startup: the listen port (main, lines 770-773 and 856)
\* ------------------------------------------------------------------------
\* Characters of a PORT value: a digit, a letter, a sign, a blank.
PortChars == {"8", "a", "-", " "}

RECURSIVE StringsUpTo(_, _)
StringsUpTo(chars, n) ==
    IF n = 0 THEN {<<>>}
    ELSE LET shorter == StringsUpTo(chars, n - 1)
         IN  shorter \cup {Append(s, c) : s \in shorter, c \in chars}

\* process.env.PORT: unset, or a string.
Unset == [set |-> FALSE, value |-> <<>>]

PortEnvs == {Unset} \cup {[set |-> TRUE, value |-> s] : s \in StringsUpTo(PortChars, MaxPortLen)}

DefaultPort == 3000

\* The process before main runs.
NotListening(portEnv) == [portEnv |-> portEnv, listening |-> FALSE, port |-> 0]

\* The process started without PORT.
ListeningDefault == [portEnv |-> Unset, listening |-> TRUE, port |-> DefaultPort]

\* A string is truthy unless it is empty; undefined is falsy.
Truthy(portEnv) == portEnv.set /\ portEnv.value # <<>>

\* const parsedPort = portEnv ? parseInt(portEnv, 10) : 3000;
\* const port = Number.isNaN(parsedPort) ? 3000 : parsedPort;
ListenPort(portEnv) ==
    LET parsedPort == IF Truthy(portEnv) THEN parseInt(portEnv.value) ELSE Num(DefaultPort)
    IN  IF parsedPort.nan THEN DefaultPort ELSE parsedPort.n

\* main computes the port and app.listen binds it.
Listen ==
    /\ ~main.listening
    /\ main' = [main EXCEPT !.listening = TRUE, !.port = ListenPort(main.portEnv)]
    /\ UNCHANGED <<httpVars, handlerVars, loader, chart>>

\* ------------------------------------------------------------------------
\* The chart descriptor (createVisualizationWithImage, lines 418-445)
\* ------------------------------------------------------------------------
\* Cells csv-parser delivers: always strings.
Cells == {<<>>, <<"8">>, <<"a">>, <<"8", "a">>}

\* The columns of the source, and the names a caller may list.
SourceColumns == {"c1", "c2"}

TargetColumns == SourceColumns \cup {"zz"}

Rows == [SourceColumns -> Cells]

RowSets == UNION {[1..n -> Rows] : n \in 1..MaxChartRows}

\* A value read from a row: a string, or undefined for a missing key.
StringValue(s) == [type |-> "string", s |-> s]

UndefinedValue == [type |-> "undefined", s |-> <<>>]

\* row[column]
Cell(row, column) ==
    IF column \in DOMAIN row THEN StringValue(row[column]) ELSE UndefinedValue

\* Number(value) with the lenient reading of parseInt.
NumberMutLenient(v) ==
    IF v.type = "undefined" THEN NaN ELSE parseInt(v.s)

\* Number(value): undefined is NaN, a string is converted as a whole.
Number(v) ==
    IF v.type = "undefined" THEN NaN ELSE StringToNumber(v.s)

\* JSON values in the written file.
JsonNull == [type |-> "null", s |-> <<>>, n |-> 0]

JsonString(s) == [type |-> "string", s |-> s, n |-> 0]

JsonNumber(n) == [type |-> "number", s |-> <<>>, n |-> n]

\* JSON.stringify of an array element: undefined and NaN are written as null.
StringifyValue(v) ==
    IF v.type = "undefined" THEN JsonNull ELSE JsonString(v.s)

StringifyNumber(x) ==
    IF x.nan THEN JsonNull ELSE JsonNumber(x.n)

NoChartConfig == [labels |-> <<>>, data |-> <<>>]

\* labels: data.map(row => row[columns[0]]),
\* data: data.map(row => Number(row[columns[1]]))
ChartConfig(data, columns) ==
    [labels |-> [k \in 1..Len(data) |-> Cell(data[k], columns[1])],
     data |-> [k \in 1..Len(data) |-> Number(Cell(data[k], columns[2]))]]

\* JSON.stringify(chartConfig, null, 2), as far as labels and data go.
Stringify(config) ==
    [labels |-> [k \in 1..Len(config.labels) |-> StringifyValue(config.labels[k])],
     data |-> [k \in 1..Len(config.data) |-> StringifyNumber(config.data[k])]]

NoChart == [data |-> <<>>, columns |-> <<>>, status |-> "none",
            chartConfig |-> NoChartConfig, written |-> NoChartConfig]

ChartCall(data, columns) == [NoChart EXCEPT !.data = data, !.columns = columns,
                                            !.status = "called"]

\* The descriptor is built and fs.writeFileSync stores it, or throws.
WriteChartConfig(fsOk) ==
    /\ chart.status = "called"
    /\ LET chartConfig == ChartConfig(chart.data, chart.columns)
       IN  chart' = [chart EXCEPT
                       !.status = IF fsOk THEN "written" ELSE "error",
                       !.chartConfig = chartConfig,
                       !.written = IF fsOk THEN Stringify(chartConfig) ELSE NoChartConfig]
    /\ UNCHANGED <<httpVars, handlerVars, loader, main>>

\* ------------------------------------------------------------------------
\* Specifications
\* ------------------------------------------------------------------------
\* The process after startup: the default output directory has been created
\* (lines 71-74).
ToolInit ==
    /\ dirs = {outputDir}
    /\ files = {}
    /\ now = 0
    /\ supabaseClient \in BOOLEAN
    /\ pc = [i \in Calls |-> "idle"]
    /\ call = [i \in Calls |-> NoCall]
    /\ local = [i \in Calls |-> NoLocal]
    /\ log = [i \in Calls |-> <<>>]
    /\ out = [i \in Calls |-> NoOut]

\* The steps of invocation i.
ToolStep(i) ==
    \/ \E name \in ToolNames \cup {"list-files"} :
         \E args \in ArgsFor(name) : CallTool(i, name, args)
    \/ ModelFailed(i)
    \/ \E t \in DateNow, fsOk \in BOOLEAN : GenerateDone(i, t, fsOk)
    \/ \E fsOk \in BOOLEAN, fsOk2 \in BOOLEAN : AnalyzePartDone(i, fsOk, fsOk2)
    \/ \E e \in LoadErrors : LoadFailed(i, e)
    \/ LoadEmpty(i)
    \/ \E rows \in 1..MaxRows, cols \in 1..MaxCols, t \in DateNow :
         AnalyzeLoaded(i, rows, cols, t)
    \/ \E rows \in 1..MaxRows, cols \in 1..MaxCols : VisualizeInsufficient(i, rows, cols)
    \/ \E rows \in 1..MaxRows, cols \in 1..MaxCols, t \in DateNow,
          fsOk \in BOOLEAN, scriptExists \in BOOLEAN :
         VisualizeLoaded(i, rows, cols, t, fsOk, scriptExists)
    \/ \E wrote \in BOOLEAN : RenderFailed(i, wrote)
    \/ \E wrote \in BOOLEAN, readOk \in BOOLEAN : RenderDone(i, wrote, readOk)
    \/ UploadFailed(i)
    \/ UploadDone(i)
    \/ SignFailed(i)
    \/ SignDone(i)

\* One invocation at a time, with every argument bundle.
ToolNext == ToolStep(1)

\* The server listens on the default port; no descriptor is being built.
StartedInit == main = ListeningDefault /\ chart = NoChart

Init == HttpInit /\ ToolInit /\ LoaderInit /\ StartedInit

\* The HTTP layer; no tool invocation is in flight.
Next == HttpNext

Spec == Init /\ [][Next]_vars

\* The tool handler; the session registry does not move.
ToolSpec == Init /\ [][ToolNext]_vars

\* One call of readCSVFile.
LoaderSpec == Init /\ [][LoaderNext]_vars

\* One call of readCSVFile in which the steps the process takes by itself are
\* taken: an armed timer expires unless it is cleared, and an aborted fetch
\* rejects. The remote server owes nothing: it may stay silent at any point.
LoaderFairSpec ==
    /\ Init
    /\ [][LoaderNext]_vars
    /\ WF_vars(TimerFires)
    /\ WF_vars(FetchAborted)

\* The process from its start, for every value of PORT.
PortInit ==
    /\ HttpInit /\ ToolInit /\ LoaderInit
    /\ main \in {NotListening(portEnv) : portEnv \in PortEnvs}
    /\ chart = NoChart

PortNext == Listen

PortSpec == PortInit /\ [][PortNext]_vars

\* One call of createVisualizationWithImage, for every non-empty row set and
\* every pair of target columns.
ChartInit ==
    /\ HttpInit /\ ToolInit /\ LoaderInit
    /\ main = ListeningDefault
    /\ chart \in {ChartCall(data, columns) :
                    data \in RowSets, columns \in TargetColumns \X TargetColumns}

ChartNext == \E fsOk \in BOOLEAN : WriteChartConfig(fsOk)

ChartSpec == ChartInit /\ [][ChartNext]_vars

\* Bundles of visualize-data invocations that write into the default output
\* directory and take the first two columns of the source.
ConcurrentVisualizeArgs ==
    {[NoArgs EXCEPT !.csvPath = "data.csv", !.visualizationType = v] :
        v \in {Absent, "line"}}

\* The steps of a visualize-data invocation i on a source of one row and two
\* columns, in a directory that accepts the configuration write.
VisualizeStep(i) ==
    \/ \E args \in ConcurrentVisualizeArgs : CallToolLoad(i, "visualize-data", args)
    \/ \E t \in DateNow, scriptExists \in BOOLEAN :
         VisualizeLoaded(i, 1, 2, t, TRUE, scriptExists)
    \/ \E wrote \in BOOLEAN : RenderFailed(i, wrote)
    \/ \E wrote \in BOOLEAN, readOk \in BOOLEAN : RenderDone(i, wrote, readOk)
    \/ UploadFailed(i)
    \/ UploadDone(i)
    \/ SignFailed(i)
    \/ SignDone(i)

\* Invocations on one or several sessions interleave at every await.
ConcurrentNext == \E i \in Calls : VisualizeStep(i)

\* Concurrent visualize-data invocations into one directory.
ConcurrentSpec == Init /\ [][ConcurrentNext]_vars

\* ------------------------------------------------------------------------
\* Session registry properties
\* ------------------------------------------------------------------------
Registered(s) == s # Undefined /\ transports[s] # Undefined

\* C1: a POST /mcp that is not an initialize request and whose session header
\* is absent or unregistered is answered 404; no handleRequest is invoked, no
\* transport is constructed and the registry is unchanged.
C1_PostUnknownRejected ==
    [][(ev'.op = "POST" /\ ~ev'.init /\ ~Registered(ev'.header))
        => /\ ev'.status = 404
           /\ ev'.to = Undefined
           /\ ev'.built = Undefined
           /\ created' = created
           /\ connecting' = connecting
           /\ transports' = transports]_vars

C1_Witness ==
    /\ ev.op = "POST" /\ ~ev.init /\ ev.status = 404
    /\ ev.header # Undefined
    /\ \E s \in SessionIds : Registered(s)

\* C2 (as claimed): a POST /mcp carrying a session header that names an
\* unregistered identifier is rejected and creates no transport and no registry
\* entry, whatever its body.
C2_StaleHeaderAlwaysRejected ==
    [][(ev'.op = "POST" /\ ev'.header # Undefined /\ ~Registered(ev'.header))
        => /\ ev'.status = 404
           /\ ev'.built = Undefined
           /\ created' = created
           /\ transports' = transports]_vars

\* C3 (as claimed): once the close notification of a registered session's
\* transport has fired, its identifier is not in the registry and every later
\* request carrying it is answered 404.
C3_ClosedSessionRejected ==
    [][/\ \A s \in closedSessions' : transports'[s] = Undefined
       /\ (ev'.op \in {"POST", "GET", "DELETE"} /\ ev'.header \in closedSessions)
            => ev'.status = 404]_vars

\* C4: a GET or DELETE /mcp whose session header is absent or unregistered is
\* answered 404, is routed to no transport and leaves the registry unchanged.
C4_SessionUnknownRejected ==
    [][(ev'.op \in {"GET", "DELETE"} /\ ~Registered(ev'.header))
        => /\ ev'.status = 404
           /\ ev'.to = Undefined
           /\ transports' = transports
           /\ closedSessions' = closedSessions]_vars

C4_Witness ==
    /\ ev.op \in {"GET", "DELETE"} /\ ev.status = 404
    /\ ev.header # Undefined
    /\ \E s \in SessionIds : Registered(s)

\* C5: a registered identifier maps to the transport that was created for the
\* initialize request which produced that identifier; an identifier entering
\* the registry was never used before; a registered entry is never replaced.
C5_OneTransportPerIdentifier ==
    /\ [](\A s \in SessionIds : Registered(s) =>
            /\ transports[s] \in 1..created
            /\ localSessionId[transports[s]] = s)
    /\ [][\A s \in SessionIds :
            /\ (Registered(s) /\ transports'[s] # Undefined)
                 => transports'[s] = transports[s]
            /\ (~Registered(s) /\ transports'[s] # Undefined)
                 => /\ s \notin closedSessions
                    /\ \A t \in TransportIds : localSessionId[t] # s]_vars

C5_Witness ==
    \E s1, s2 \in SessionIds :
        s1 # s2 /\ Registered(s1) /\ Registered(s2) /\ closedSessions # {}

\* C6: a step that is not addressed to session B (a request carrying another
\* header, or the close of another transport) leaves B's registry entry as it is.
C6_SessionsIndependent ==
    [][\A b \in SessionIds :
         (Registered(b) /\ ev'.header # b /\ ev'.to # transports[b])
            => transports'[b] = transports[b]]_vars

C6_Witness ==
    /\ ev.op \in {"close", "DELETE"}
    /\ ev.to # Undefined
    /\ localSessionId[ev.to] \in closedSessions
    /\ \E b \in SessionIds : Registered(b) /\ transports[b] # ev.to

\* ------------------------------------------------------------------------
\* Tool dispatcher properties
\* ------------------------------------------------------------------------
\* The step in which the handler takes up invocation i.
Dispatched(i) == pc[i] = "idle" /\ pc'[i] # "idle"

Effects(i) == {log[i][k] : k \in DOMAIN log[i]}

\* C7: an unknown tool name ends the invocation with UnknownTool; no directory
\* is created, no artifact written, no source loaded and no collaborator called.
C7_UnknownToolNoSideEffect ==
    [][\A i \in Calls :
         (Dispatched(i) /\ call'[i].name \notin ToolNames)
            => /\ pc'[i] = "done"
               /\ out'[i] = Thrown("UnknownTool")
               /\ log'[i] = <<>>
               /\ dirs' = dirs
               /\ files' = files]_vars

C7_Witness ==
    \E i \in Calls :
        /\ out[i].error = "UnknownTool"
        /\ call[i].args.outputDir = "out2"
        /\ "/cwd/out2" \notin dirs

\* A bundle with a required field missing, a field of the wrong type, or a
\* value outside its enumerated set.
FailsSchema(name, args) ==
    \/ name = "generate-thinking" /\ args.prompt \in {Absent, NotAString}
    \/ name \in {"analyze-csv", "visualize-data"} /\ args.csvPath \in {Absent, NotAString}
    \/ args.outputDir = NotAString
    \/ name = "analyze-csv" /\ args.analysisType \notin {Absent, "basic", "detailed"}
    \/ name = "visualize-data"
         /\ \/ args.visualizationType \notin {Absent, "bar", "line", "scatter", "pie"}
            \/ args.columns.kind = "number"
            \/ args.title = NotAString

\* C8: for each tool, a bundle that fails the tool's schema ends the invocation
\* with InvalidArguments and no side effect.
C8_InvalidArgumentsNoSideEffect ==
    [][\A i \in Calls :
         (Dispatched(i) /\ call'[i].name \in ToolNames
                        /\ FailsSchema(call'[i].name, call'[i].args))
            => /\ pc'[i] = "done"
               /\ out'[i] = Thrown("InvalidArguments")
               /\ log'[i] = <<>>
               /\ dirs' = dirs
               /\ files' = files]_vars

C8_Witness ==
    \E i \in Calls :
        /\ out[i].error = "InvalidArguments"
        /\ call[i].name = "visualize-data"
        /\ call[i].args.csvPath = "data.csv"
        /\ call[i].args.visualizationType = "area"
        /\ call[i].args.outputDir = "out2"
        /\ "/cwd/out2" \notin dirs

\* C9 (as claimed): a caller-supplied column list with fewer than 2 entries is
\* rejected before the output directory is ensured and before the source is loaded.
C9_ShortColumnListRejectedEarly ==
    \A i \in Calls :
        (/\ call[i].name = "visualize-data"
         /\ call[i].args.columns.kind = "array"
         /\ Len(call[i].args.columns.items) < 2)
        => Effects(i) \cap {"mkdir", "ensureDir", "load"} = {}

ConfigOf(i) ==
    ConfigFile(SaveDir(call[i].args), VisualizationTypeOf(call[i].args),
               local[i].timestamp)

\* The image the renderer of invocation i is asked to produce.
ImageOf(i) ==
    ImageFile(SaveDir(call[i].args), VisualizationTypeOf(call[i].args),
              local[i].timestamp)

\* Invocation i has passed ConfigWritten: its writeFileSync of the
\* configuration returned.
ConfigWritten(i) ==
    /\ call[i].name = "visualize-data"
    /\ local[i].rows > 0
    /\ "write" \in Effects(i)
    /\ ConfigOf(i) \in files

\* C11: a visualize-data invocation is in the render, upload or sign stage only
\* after its configuration was written; once the configuration is written the
\* invocation can only end in a success response that carries the
\* configuration's location; an invocation that ends in an error wrote no
\* configuration and started no renderer, upload or signing.
C11_AfterConfigEverySuccess ==
    \A i \in Calls :
        call[i].name = "visualize-data" =>
            /\ pc[i] \in {"render", "upload", "sign"} => ConfigWritten(i)
            /\ (ConfigWritten(i) /\ pc[i] = "done") =>
                   /\ out[i].status = "ok"
                   /\ out[i].configPath = ConfigOf(i)
            /\ out[i].status = "error" =>
                   /\ ~ConfigWritten(i)
                   /\ Effects(i) \cap {"render", "upload", "sign"} = {}

C11_Witness ==
    \E i \in Calls :
        /\ ConfigWritten(i)
        /\ pc[i] = "done"
        /\ {"render", "renderError"} \subseteq Effects(i)
        /\ out[i].status = "ok"
        /\ out[i].imagePath = Null

\* The render stage of invocation i succeeded: execFile resolved.
RenderSucceeded(i) == "rendered" \in Effects(i)

\* The upload stage of invocation i succeeded: the object was stored and its
\* signed URL retrieved.
UploadSucceeded(i) ==
    /\ {"upload", "sign"} \subseteq Effects(i)
    /\ Effects(i) \cap {"uploadError", "signError"} = {}
    /\ pc[i] = "done"

\* C12 (as claimed): the rendered-image location of a response is non-null only
\* if the render stage of the same invocation succeeded, its signed URL is
\* non-null only if the upload stage of the same invocation succeeded, and a
\* failed render always yields a null rendered-image location.
C12_ImageOnlyIfRenderSucceeded ==
    \A i \in Calls :
        (call[i].name = "visualize-data" /\ out[i].status = "ok") =>
            /\ out[i].imagePath # Null => RenderSucceeded(i)
            /\ out[i].imageUrl # Null => UploadSucceeded(i)
            /\ "renderError" \in Effects(i) => out[i].imagePath = Null

\* The upload stage of invocation i failed: reading the image, storing it or
\* retrieving its signed URL.
UploadErrored(i) == Effects(i) \cap {"uploadError", "signError"} # {}

\* C13: when the render stage succeeded and the configured storage then fails
\* (upload or signed-URL retrieval), the invocation ends in a success response
\* with the configuration path, the image path and a null signed URL; the
\* storage failure is not raised.
C13_StorageFailureNotRaised ==
    \A i \in Calls :
        (/\ call[i].name = "visualize-data"
         /\ pc[i] = "done"
         /\ RenderSucceeded(i)
         /\ UploadErrored(i))
        => /\ supabaseClient
           /\ out[i].status = "ok"
           /\ out[i].configPath = ConfigOf(i) /\ ConfigOf(i) # Null
           /\ out[i].imagePath = ImageOf(i) /\ ImageOf(i) # Null
           /\ out[i].imageUrl = Null

C13_Witness ==
    \E i \in Calls :
        /\ pc[i] = "done"
        /\ RenderSucceeded(i)
        /\ {"upload", "uploadError"} \subseteq Effects(i)
        /\ out[i].status = "ok"

\* The render stage of invocation i succeeded and left its image on disk.
ImageProduced(i) == RenderSucceeded(i) /\ ImageOf(i) \in files

\* C14: without a storage client no upload and no signed-URL call is ever
\* made, the signed URL of the response is null, and the image path is
\* non-null whenever the renderer succeeded and produced its image.
C14_NoStorageNoUpload ==
    \A i \in Calls :
        (call[i].name = "visualize-data" /\ ~supabaseClient) =>
            /\ Effects(i) \cap {"upload", "sign"} = {}
            /\ out[i].imageUrl = Null
            /\ (pc[i] = "done" /\ ImageProduced(i)) =>
                   /\ out[i].status = "ok"
                   /\ out[i].imagePath = ImageOf(i) /\ ImageOf(i) # Null

C14_Witness ==
    \E i \in Calls :
        /\ ~supabaseClient
        /\ pc[i] = "done"
        /\ ImageProduced(i)
        /\ out[i].imagePath = ImageOf(i)
        /\ out[i].imageUrl = Null

\* In the trace of invocation i an effect a precedes an effect b.
Before(i, a, b) ==
    \E k \in DOMAIN log[i], m \in DOMAIN log[i] :
        k < m /\ log[i][k] = a /\ log[i][m] = b

\* C15: the stages of a visualize-data invocation run one after another: the
\* renderer starts after the configuration write, the upload starts only after
\* the renderer has completed and only if it succeeded, the signed URL is
\* requested after the upload, and while one stage is in progress no later
\* stage has started.
C15_StagesSequential ==
    \A i \in Calls :
        call[i].name = "visualize-data" =>
            /\ "render" \in Effects(i) => Before(i, "write", "render")
            /\ "rendered" \in Effects(i) => Before(i, "render", "rendered")
            /\ "upload" \in Effects(i) =>
                   /\ Before(i, "rendered", "upload")
                   /\ "renderError" \notin Effects(i)
            /\ "sign" \in Effects(i) => Before(i, "upload", "sign")
            /\ pc[i] = "render" =>
                   Effects(i) \cap {"rendered", "renderError", "upload", "sign"} = {}
            /\ pc[i] = "upload" => "sign" \notin Effects(i)

C15_Witness ==
    \E i \in Calls :
        /\ pc[i] = "sign"
        /\ Before(i, "write", "render")
        /\ Before(i, "rendered", "upload")
        /\ Before(i, "upload", "sign")

\* C16: when the loader returns a non-empty row set with fewer than 2 columns
\* and the caller gave no column list, the invocation ends with
\* InsufficientColumns, the error lists the available columns, and no
\* configuration was written and no renderer, upload or signing started.
C16_InsufficientColumnsBeforeArtifacts ==
    \A i \in Calls :
        (/\ call[i].name = "visualize-data"
         /\ call[i].args.columns.kind = "absent"
         /\ local[i].rows > 0
         /\ Len(local[i].cols) < 2)
        => /\ pc[i] = "done"
           /\ out[i].status = "error"
           /\ out[i].error = "InsufficientColumns"
           /\ out[i].available = local[i].cols
           /\ Effects(i) \cap {"write", "render", "upload", "sign"} = {}
           /\ files = {}

C16_Witness ==
    \E i \in Calls :
        /\ call[i].name = "visualize-data"
        /\ call[i].args.columns.kind = "absent"
        /\ local[i].rows > 0
        /\ out[i].error = "InsufficientColumns"
        /\ out[i].available = <<"c1">>

\* C17 (as claimed): the configuration and image file names of concurrent
\* visualize-data invocations into the same directory are pairwise distinct,
\* whatever the interleaving and the clock readings.
C17_ConcurrentNamesDistinct ==
    \A i \in Calls, j \in Calls :
        (/\ i # j
         /\ ConfigWritten(i) /\ ConfigWritten(j)
         /\ SaveDir(call[i].args) = SaveDir(call[j].args))
        => /\ ConfigOf(i) # ConfigOf(j)
           /\ ImageOf(i) # ImageOf(j)

\* ------------------------------------------------------------------------
\* Load and model failure properties
\* ------------------------------------------------------------------------
\* The calls and writes that follow the load stage.
AfterLoad == {"model", "write", "render", "upload", "sign"}

\* C18: when the loader returns zero rows without an error, analyze-csv and
\* visualize-data both end with EmptySource, raised by the handler and not by
\* the loader, before any model call and before any artifact is written.
C18_EmptySourceTerminal ==
    \A i \in Calls :
        (/\ call[i].name \in {"analyze-csv", "visualize-data"}
         /\ "loaded" \in Effects(i)
         /\ local[i].rows = 0)
        => /\ pc[i] = "done"
           /\ out[i] = Thrown("EmptySource")
           /\ Effects(i) \cap AfterLoad = {}
           /\ files = {}

C18_Witness ==
    \E i \in Calls :
        /\ call[i].name = "analyze-csv"
        /\ "loaded" \in Effects(i)
        /\ local[i].rows = 0
        /\ out[i].error = "EmptySource"

\* C19: an error of the load stage ends the invocation with that error: the
\* step that leaves the load stage without a returned row set ends the
\* invocation with one of the loader's errors and changes nothing else, and an
\* invocation that ended with a loader error made no model, renderer or
\* storage call and wrote no artifact.
C19_LoadErrorTerminal ==
    /\ [](\A i \in Calls :
            out[i].error \in LoadErrors =>
                /\ pc[i] = "done"
                /\ out[i] = Thrown(out[i].error)
                /\ "loaded" \notin Effects(i)
                /\ Effects(i) \cap AfterLoad = {}
                /\ files = {})
    /\ [][\A i \in Calls :
            (pc[i] = "load" /\ pc'[i] # "load" /\ "loaded" \notin Effects(i)')
                => /\ pc'[i] = "done"
                   /\ out'[i].status = "error"
                   /\ out'[i].error \in LoadErrors
                   /\ log'[i] = log[i]
                   /\ files' = files
                   /\ dirs' = dirs]_vars

C19_Witness ==
    \E i \in Calls :
        /\ call[i].name = "visualize-data"
        /\ out[i] = Thrown("FetchTimeout")
        /\ log[i] = <<"parse", "mkdir", "ensureDir", "load">>

\* The prompts of analyze-csv invocation i and its summary artifact.
PromptsOf(i) == generateEDAPrompts(AnalysisTypeOf(call[i].args))

SummaryOf(i) == SummaryFile(SaveDir(call[i].args), local[i].timestamp)

\* The number of prompts invocation i has sent to the model.
Sent(i) == Cardinality({k \in DOMAIN log[i] : log[i][k] = "model"})

\* C20: in analyze-csv a failed model call ends the invocation with
\* ModelCallFailed in the same step, with no further prompt and no write; the
\* summary artifact exists only when every requested part was answered and
\* written, and an invocation that ended with ModelCallFailed has no summary.
C20_ModelFailureTerminal ==
    /\ [](\A i \in Calls :
            call[i].name = "analyze-csv" =>
                /\ (out[i].error = "ModelCallFailed" \/ "modelError" \in Effects(i)) =>
                       /\ pc[i] = "done"
                       /\ out[i] = Thrown("ModelCallFailed")
                       /\ SummaryOf(i) \notin files
                       /\ Sent(i) = local[i].part
                       /\ log[i][Len(log[i])] = "modelError"
                /\ ("loaded" \in Effects(i) /\ SummaryOf(i) \in files) =>
                       /\ Sent(i) = Len(PromptsOf(i))
                       /\ \A k \in DOMAIN PromptsOf(i) :
                              PartFile(SaveDir(call[i].args), local[i].timestamp, k)
                                  \in files)
    /\ [][\A i \in Calls :
            (pc[i] = "model" /\ "modelError" \in Effects(i)')
                => /\ pc'[i] = "done"
                   /\ out'[i] = Thrown("ModelCallFailed")
                   /\ log'[i] = log[i] \o <<"modelError">>
                   /\ files' = files]_vars

C20_Witness ==
    \E i \in Calls :
        /\ call[i].name = "analyze-csv"
        /\ out[i].error = "ModelCallFailed"
        /\ Sent(i) = 2
        /\ PartFile(SaveDir(call[i].args), local[i].timestamp, 1) \in files
        /\ SummaryOf(i) \notin files

\* The artifacts on disk that carry the names invocation i gives its files.
Produced(i) ==
    LET saveDir == SaveDir(call[i].args)
        ts == local[i].timestamp
    IN  IF "write" \notin Effects(i) THEN {}
        ELSE files \cap
               CASE call[i].name = "generate-thinking" -> {ThinkingFile(saveDir, ts)}
                 [] call[i].name = "analyze-csv" ->
                        {PartFile(saveDir, ts, k) : k \in DOMAIN PromptsOf(i)}
                            \cup {SummaryOf(i)}
                 [] call[i].name = "visualize-data" -> {ConfigOf(i), ImageOf(i)}
                 [] OTHER -> {}

\* C21 (as claimed): an invocation that has produced an artifact never ends in
\* a thrown error: a failure of a later stage is returned as a partial success
\* that still reports the artifact.
C21_PartialSuccessReturned ==
    \A i \in Calls :
        (pc[i] = "done" /\ Produced(i) # {}) => out[i].status = "ok"

\* ------------------------------------------------------------------------
\* Analysis and text-generation sequence properties
\* ------------------------------------------------------------------------
\* The number of chat sessions invocation i has started.
Chats(i) == Cardinality({k \in DOMAIN log[i] : log[i][k] = "startChat"})

\* Part k of analyze-csv invocation i.
PartOf(i, k) == PartFile(SaveDir(call[i].args), local[i].timestamp, k)

\* C22: an analyze-csv invocation starts one chat session, before its first
\* prompt; while a prompt is pending it is the prompt numbered by the count of
\* prompts sent and every earlier part is on disk; a further prompt is sent
\* only in the step that received the pending response and wrote its part; the
\* summary is on disk only with the last part.
C22_PromptsSequentialOneChat ==
    /\ [](\A i \in Calls :
            call[i].name = "analyze-csv" =>
                /\ Chats(i) <= 1
                /\ Sent(i) > 0 => (Chats(i) = 1 /\ Before(i, "startChat", "model"))
                /\ pc[i] = "model" =>
                       /\ local[i].part = Sent(i)
                       /\ \A k \in 1..(Sent(i) - 1) : PartOf(i, k) \in files
                       /\ PartOf(i, Sent(i)) \notin files
                       /\ SummaryOf(i) \notin files
                /\ ("loaded" \in Effects(i) /\ SummaryOf(i) \in files) =>
                       PartOf(i, Len(PromptsOf(i))) \in files)
    /\ [][\A i \in Calls :
            (call[i].name = "analyze-csv" /\ Sent(i) >= 1 /\ Sent(i)' > Sent(i))
                => /\ pc[i] = "model"
                   /\ log'[i] = log[i] \o <<"write", "model">>
                   /\ PartOf(i, Sent(i)) \in files']_vars

C22_Witness ==
    \E i \in Calls :
        /\ call[i].name = "analyze-csv"
        /\ pc[i] = "model"
        /\ Sent(i) = 2
        /\ PartOf(i, 1) \in files

\* The number of parts the depth of invocation i asks for.
Requested(i) == IF call[i].args.analysisType = "basic" THEN 1 ELSE 2

\* C23: a successful analyze-csv invocation has sent exactly 1 prompt when the
\* depth is basic and exactly 2 when it is detailed or omitted; it returns as
\* many parts, and the part files 1..n are on disk.
C23_PartCountByDepth ==
    \A i \in Calls :
        (call[i].name = "analyze-csv" /\ out[i].status = "ok") =>
            /\ call[i].args.analysisType \in {Absent, "basic", "detailed"}
            /\ Sent(i) = Requested(i)
            /\ out[i].parts = Requested(i)
            /\ \A k \in 1..Requested(i) : PartOf(i, k) \in files
            /\ Requested(i) = 1 => PartOf(i, 2) \notin files
            /\ out[i].savedFile = SummaryOf(i)

C23_Witness ==
    \E i \in Calls :
        /\ call[i].name = "analyze-csv"
        /\ call[i].args.analysisType = "basic"
        /\ out[i].status = "ok"
        /\ Sent(i) = 1

\* C24: in generate-thinking a failed model call ends the invocation with
\* ModelCallFailed in the same step, writing nothing and returning no text; a
\* write is attempted only after the model call, and only by the step that
\* received the response.
C24_ThinkingModelFailureTerminal ==
    /\ [](\A i \in Calls :
            call[i].name = "generate-thinking" =>
                /\ (out[i].error = "ModelCallFailed" \/ "modelError" \in Effects(i)) =>
                       /\ pc[i] = "done"
                       /\ out[i] = Thrown("ModelCallFailed")
                       /\ "write" \notin Effects(i)
                       /\ files = {}
                /\ pc[i] = "model" => ("write" \notin Effects(i) /\ files = {})
                /\ "write" \in Effects(i) => Before(i, "model", "write")
                /\ out[i].status = "ok" =>
                       /\ out[i].savedFile \in files
                       /\ out[i].savedFile =
                              ThinkingFile(SaveDir(call[i].args), local[i].timestamp))
    /\ [][\A i \in Calls :
            (/\ call[i].name = "generate-thinking"
             /\ pc[i] = "model"
             /\ "modelError" \in Effects(i)')
                => /\ out'[i] = Thrown("ModelCallFailed")
                   /\ log'[i] = log[i] \o <<"modelError">>
                   /\ files' = files]_vars

C24_Witness ==
    \E i \in Calls :
        /\ call[i].name = "generate-thinking"
        /\ call[i].args.prompt = "hello"
        /\ out[i] = Thrown("ModelCallFailed")
        /\ log[i] = <<"parse", "ensureDir", "startChat", "model", "modelError">>

\* ------------------------------------------------------------------------
\* Source loader properties
\* ------------------------------------------------------------------------
\* C25: a reference with an http:// or https:// prefix that fails URL parsing
\* makes readCSVFile fail with InvalidReference in its first step, with no
\* fetch call and no timer armed, and the call stays that way.
C25_InvalidReferenceNoNetwork ==
    /\ [][(/\ loader.pc = "idle" /\ loader'.pc # "idle"
            /\ IsURL(loader'.filePath) /\ ~URLParses(loader'.filePath))
           => /\ loader'.pc = "done"
              /\ loader'.ret = Failure("InvalidReference", NoError)
              /\ loader'.fetches = 0
              /\ loader'.timer = "unset"
              /\ ~loader'.aborted]_vars
    /\ []((IsURL(loader.filePath) /\ ~URLParses(loader.filePath)) =>
             /\ loader.ret.class = "InvalidReference"
             /\ loader.fetches = 0
             /\ loader.timer = "unset"
             /\ ~loader.parser)

C25_Witness ==
    /\ loader.filePath = "http://"
    /\ loader.pc = "done"
    /\ loader.ret.class = "InvalidReference"
    /\ loader.fetches = 0

\* C26: when the timer expires while fetch is pending, the fetch is aborted
\* and readCSVFile fails with FetchTimeout, never with FetchFailed.
C26_TimeoutIsFetchTimeout ==
    /\ [][(loader.timer = "armed" /\ loader'.timer = "fired")
           => (loader.pc = "fetch" /\ loader'.aborted /\ loader'.pc = "fetch")]_vars
    /\ [][(loader.pc = "fetch" /\ loader.aborted /\ loader'.pc # "fetch")
           => /\ loader'.pc = "done"
              /\ loader'.ret.status = "error"
              /\ loader'.ret.class = "FetchTimeout"]_vars
    /\ [](loader.timer = "fired" =>
             /\ loader.aborted
             /\ loader.pc \in {"fetch", "done"}
             /\ loader.pc = "done" => loader.ret.class = "FetchTimeout")

C26_Witness ==
    /\ loader.timer = "fired"
    /\ loader.pc = "done"
    /\ loader.ret.class = "FetchTimeout"
    /\ loader.fetches = 1

\* C27 (as claimed): a load from a URL that has called fetch terminates,
\* whatever the server does: it ends with a row set or with an error.
C27_UrlLoadTerminates ==
    (loader.pc \in {"fetch", "pipe"}) ~> (loader.pc = "done")

\* While the response headers are awaited the timer bounds the wait.
FetchStageTerminates ==
    (loader.pc = "fetch") ~> (loader.pc \in {"pipe", "done"})

\* C28 (as claimed): a timeout fails with FetchTimeout, a network error with
\* FetchFailed and a non-2xx status with FetchRejected carrying the status
\* code; a non-2xx response is never reported as FetchFailed or FetchTimeout
\* and no row is parsed from it.
C28_FetchFailuresClassified ==
    /\ (loader.pc = "done" /\ loader.ret.cause.name = "AbortError")
          => loader.ret.class = "FetchTimeout"
    /\ (loader.pc = "done" /\ loader.ret.cause.name = "TypeError")
          => loader.ret.class = "FetchFailed"
    /\ (loader.response # NoResponse /\ ~ResponseOk(loader.response.status))
          => /\ loader.pc = "done"
             /\ loader.ret.class = "FetchRejected"
             /\ loader.ret.class \notin {"FetchFailed", "FetchTimeout"}
             /\ loader.ret.cause.code = loader.response.status
             /\ ~loader.parser
             /\ loader.results = 0

\* C29 (as claimed): a response that declares an HTML content type makes
\* readCSVFile fail with UnexpectedContentType before any parsing: no parser
\* is created or fed, no header is read and no row is accumulated.
C29_HtmlContentTypeBeforeParsing ==
    (/\ loader.response # NoResponse
     /\ ResponseOk(loader.response.status)
     /\ loader.response.body
     /\ DeclaresHTML(loader.response.contentType))
    => /\ loader.pc = "done"
       /\ loader.ret.class = "UnexpectedContentType"
       /\ ~loader.parser
       /\ loader.header = <<>>
       /\ loader.results = 0

\* What does hold of a response that declares HTML: the content-type test is
\* the origin of the error and nothing was parsed.
HtmlContentTypeNothingParsed ==
    (/\ loader.response # NoResponse
     /\ ResponseOk(loader.response.status)
     /\ loader.response.body
     /\ DeclaresHTML(loader.response.contentType))
    => /\ loader.pc = "done"
       /\ loader.ret.status = "error"
       /\ loader.ret.cause.site = "UnexpectedContentType"
       /\ ~loader.parser
       /\ loader.header = <<>>
       /\ loader.results = 0

\* C30 (as claimed): when the content type passed and the header row read by
\* the parser has an HTML tag in a column name, readCSVFile fails with
\* MalformedSource and returns no row set, for every number of data rows,
\* zero included.
C30_HtmlHeaderNeverReturned ==
    (/\ loader.pc = "done"
     /\ IsURL(loader.filePath)
     /\ loader.parser
     /\ hasHTMLTags(loader.header)
     /\ loader.ret.cause.site # "pipeline")
    => /\ loader.ret.status = "error"
       /\ loader.ret.class = "MalformedSource"

\* The part of C30 that fails without the rewrapping of catch (fetchError): a
\* row set is never returned when the header row has an HTML tag.
HtmlHeaderNoRowSet ==
    (/\ loader.pc = "done"
     /\ IsURL(loader.filePath)
     /\ hasHTMLTags(loader.header))
    => loader.ret.status # "rows"

\* ------------------------------------------------------------------------
\* HTTP endpoint properties
\* ------------------------------------------------------------------------
\* C31: GET /health is answered 200 with the fixed body, whatever the session
\* header, is routed to no transport and leaves the registry, the transports
\* and the filesystem unchanged.
C31_HealthNoSideEffect ==
    [][ev'.op = "HEALTH"
        => /\ ev'.status = 200
           /\ ev'.body = HealthBody
           /\ ev'.to = Undefined
           /\ ev'.built = Undefined
           /\ transports' = transports
           /\ created' = created
           /\ connecting' = connecting
           /\ closedSessions' = closedSessions
           /\ dirs' = dirs
           /\ files' = files]_vars

C31_Witness ==
    /\ ev.op = "HEALTH"
    /\ ev.header = Undefined
    /\ ev.status = 200
    /\ \E s \in SessionIds : Registered(s)

\* ------------------------------------------------------------------------
\* Startup properties
\* ------------------------------------------------------------------------
\* A complete decimal integer: an optional sign, then digits to the end.
IsDecimalInteger(s) ==
    LET u == IF s # <<>> /\ Head(s) = "-" THEN Tail(s) ELSE s
    IN  u # <<>> /\ \A i \in 1..Len(u) : u[i] \in Digits

DecimalIntegerValue(s) ==
    IF Head(s) = "-" THEN 0 - DecimalValue(Tail(s), Len(s) - 1)
    ELSE DecimalValue(s, Len(s))

\* C32: the listen port is the value of PORT when PORT is set and is a
\* complete decimal integer, and 3000 when PORT is unset or is anything else.
C32_PortParsedOrDefault ==
    main.listening
        => main.port = IF main.portEnv.set /\ IsDecimalInteger(main.portEnv.value)
                       THEN DecimalIntegerValue(main.portEnv.value)
                       ELSE DefaultPort

\* The part of C32 the code keeps: an unset or empty PORT, and a PORT without a
\* leading digit run, give 3000; a complete decimal integer gives its value.
PortDefaultWhenNoDigits ==
    main.listening
        => /\ ~Truthy(main.portEnv) => main.port = DefaultPort
           /\ Truthy(main.portEnv) /\ IsDecimalInteger(main.portEnv.value)
                 => main.port = DecimalIntegerValue(main.portEnv.value)
           /\ Truthy(main.portEnv) /\ parseInt(main.portEnv.value).nan
                 => main.port = DefaultPort

\* ------------------------------------------------------------------------
\* Loader cleanup
\* ------------------------------------------------------------------------
\* C33: when a URL load that armed the fetch timer has returned or thrown,
\* clearTimeout has been called and the timer is not pending, so it cannot
\* expire and abort after the load ended.
C33_TimerClearedOnExit ==
    loader.pc = "done" /\ loader.fetches > 0
        => /\ loader.cleared
           /\ loader.timer \in {"cleared", "fired"}
           /\ ~ENABLED TimerFires

\* A load that threw after the body had started to stream.
C33_Witness ==
    /\ loader.pc = "done" /\ loader.fetches > 0
    /\ loader.ret.status = "error" /\ loader.response.status = 200
    /\ loader.parser /\ loader.timer = "cleared"

\* ------------------------------------------------------------------------
\* Chart descriptor properties
\* ------------------------------------------------------------------------
\* A cell with a character that is no digit, sign or blank.
IsNonNumeric(s) == \E i \in 1..Len(s) : s[i] \notin Digits \cup WhiteSpace \cup {"-"}

\* C34: the written descriptor has one label and one value per row, in row
\* order; the label of row k is the cell of the first target column as it was
\* read, a string even when it looks like a number; the value of row k is the
\* number its cell of the second target column denotes, and the not-a-number
\* sentinel (NaN in chartConfig, which JSON.stringify writes as null) when the
\* cell is not numeric; building the descriptor never throws.
C34_DescriptorLabelsAndValues ==
    /\ chart.status # "called" => Len(chart.chartConfig.data) = Len(chart.data)
    /\ chart.status = "written"
         => LET data == chart.data
                label == chart.columns[1]
                value == chart.columns[2]
            IN  /\ Len(chart.written.labels) = Len(data)
                /\ Len(chart.written.data) = Len(data)
                /\ \A k \in 1..Len(data) :
                     /\ label \in SourceColumns
                          => chart.written.labels[k] = JsonString(data[k][label])
                     /\ value \in SourceColumns /\ IsDecimalInteger(data[k][value])
                          => chart.written.data[k]
                               = JsonNumber(DecimalIntegerValue(data[k][value]))
                     /\ value \in SourceColumns /\ IsNonNumeric(data[k][value])
                          => /\ chart.chartConfig.data[k] = NaN
                             /\ chart.written.data[k] = JsonNull

\* Two rows: a non-numeric value cell, then a numeric one; numeric-looking
\* labels.
C34_Witness ==
    /\ chart.status = "written"
    /\ chart.columns = <<"c1", "c2">>
    /\ Len(chart.data) = 2
    /\ chart.data[1]["c1"] = <<"8">> /\ chart.data[1]["c2"] = <<"8", "a">>
    /\ chart.data[2]["c1"] = <<"a">> /\ chart.data[2]["c2"] = <<"8">>
    /\ chart.written.labels = <<JsonString(<<"8">>), JsonString(<<"a">>)>>
    /\ chart.written.data = <<JsonNull, JsonNumber(8)>>

\* What the code does with cells the claim does not speak of: an empty cell is
\* the number 0, and a target column the rows do not have gives null labels
\* and null values.
EmptyAndMissingCells ==
    chart.status = "written"
        => \A k \in 1..Len(chart.data) :
             /\ chart.columns[2] \in SourceColumns /\ chart.data[k][chart.columns[2]] = <<>>
                  => chart.written.data[k] = JsonNumber(0)
             /\ chart.columns[1] \notin SourceColumns => chart.written.labels[k] = JsonNull
             /\ chart.columns[2] \notin SourceColumns => chart.written.data[k] = JsonNull

\* ------------------------------------------------------------------------
\* Response properties
\* ------------------------------------------------------------------------
\* C35: a visualize-data response carries a signed URL only inside a non-null
\* rendered-image field whose path is the image of this invocation, the file
\* that was uploaded and is on disk; and the orchestrator never returns a signed
\* URL with a null image location.
C35_UrlOnlyWithImage ==
    \A i \in Calls :
        (call[i].name = "visualize-data" /\ out[i].status = "ok") =>
            /\ RenderedImage(out[i]).url # Null
                 => /\ RenderedImage(out[i]).present
                    /\ RenderedImage(out[i]).path = ImageOf(i)
                    /\ RenderedImage(out[i]).url = ImageOf(i)
                    /\ ImageOf(i) \in files
                    /\ UploadSucceeded(i)
            /\ out[i].imageUrl # Null => out[i].imagePath # Null

C35_Witness ==
    \E i \in Calls :
        /\ call[i].name = "visualize-data" /\ out[i].status = "ok"
        /\ RenderedImage(out[i]).url # Null
        /\ RenderedImage(out[i]).path = ImageOf(i)

\* ------------------------------------------------------------------------
\* Registry frame properties
\* ------------------------------------------------------------------------
\* The identifiers that have an entry in the registry.
Keys == {s \in SessionIds : transports[s] # Undefined}

\* An answer that turns the request down.
Rejection(e) == e.op \in {"POST", "GET", "DELETE", "connected"} /\ e.status \in {400, 404, 406, 500}

\* C36: the registry changes only when the session-initialized callback of an
\* initialize request adds one identifier, bound to the transport that was
\* initialized, or when the close notification of a transport removes that
\* transport's identifier; a request routed to a transport (a tool call, a
\* list-tools request), a health probe and a rejected request leave it unchanged.
C36_RegistryChangesOnlyByCallbacks ==
    [][/\ transports' # transports
           => \/ /\ ev'.op = "connected" /\ ev'.status = 200
                 /\ \E s \in SessionIds \ Keys :
                      /\ s = localSessionId'[ev'.to]
                      /\ transports' = [transports EXCEPT ![s] = ev'.to]
              \/ /\ ev'.op \in {"close", "DELETE"}
                 /\ localSessionId[ev'.to] \in Keys
                 /\ transports' = [transports EXCEPT ![localSessionId[ev'.to]] = Undefined]
       /\ (ev'.op \in {"POST", "GET", "HEALTH"} \/ Rejection(ev')) => transports' = transports
      ]_vars

\* A transport was closed while another one stays registered.
C36_Witness ==
    /\ ev.op \in {"close", "DELETE"}
    /\ closedSessions # {}
    /\ Keys # {}
    /\ \E s \in closedSessions : transports[s] = Undefined

\* The steps of a tool invocation do not touch the registry.
ToolStepsLeaveRegistry == [][transports' = transports /\ created' = created]_vars

\* C38: a POST /mcp whose session header is registered is handed to exactly the
\* transport registered under it, constructs no transport and leaves the
\* registry unchanged, also when its body is an initialize request.
C38_RegisteredPostRouted ==
    [][(ev'.op = "POST" /\ Registered(ev'.header))
           => /\ ev'.to = transports[ev'.header]
              /\ ev'.built = Undefined
              /\ created' = created
              /\ connecting' = connecting
              /\ transports' = transports]_vars

\* An initialize request on a registered session was routed to its transport.
C38_Witness ==
    /\ ev.op = "POST" /\ ev.init
    /\ Registered(ev.header)
    /\ ev.to = transports[ev.header]
    /\ ev.built = Undefined
    /\ Cardinality(Keys) >= 2

\* C39: every entry of the registry was made by the session-initialized
\* callback of its transport; a transport whose connect fails or whose request
\* is refused before a session is initialized adds no entry, and the close
\* notification of a transport without a session removes no entry.
C39_RegisteredOnlyWhenInitialized ==
    /\ [](\A s \in SessionIds :
             transports[s] # Undefined => localSessionId[transports[s]] = s)
    /\ [][/\ (ev'.op = "connected" /\ ev'.status # 200) => transports' = transports
          /\ (ev'.op = "close" /\ localSessionId[ev'.to] = Undefined)
                => transports' = transports]_vars

\* A transport that never got a session was closed while another session is
\* registered.
C39_Witness ==
    /\ ev.op = "close"
    /\ localSessionId[ev.to] = Undefined
    /\ ev.to \notin connecting
    /\ Keys # {}

\* ------------------------------------------------------------------------
\* Error propagation
\* ------------------------------------------------------------------------
\* The mandatory artifacts of invocation i are on disk.
MandatoryArtifactsWritten(i) ==
    LET saveDir == SaveDir(call[i].args)
        ts == local[i].timestamp
    IN  CASE call[i].name = "generate-thinking" -> ThinkingFile(saveDir, ts) \in files
          [] call[i].name = "analyze-csv" ->
               /\ \A k \in 1..Requested(i) : PartFile(saveDir, ts, k) \in files
               /\ SummaryFile(saveDir, ts) \in files
          [] call[i].name = "visualize-data" -> ConfigOf(i) \in files
          [] OTHER -> FALSE

\* Every mandatory stage of invocation i succeeded: validation, directory,
\* load, non-empty check, column check, model calls, mandatory writes.
MandatoryStagesSucceeded(i) ==
    /\ call[i].name \in ToolNames
    /\ SchemaOf(call[i].name, call[i].args)
    /\ "ensureDir" \in Effects(i)
    /\ call[i].name \in {"analyze-csv", "visualize-data"}
         => "loaded" \in Effects(i) /\ local[i].rows > 0
    /\ call[i].name = "visualize-data"
         => Len(ColumnsToVisualize(call[i].args, local[i].cols)) >= 2
    /\ call[i].name \in {"generate-thinking", "analyze-csv"}
         => "model" \in Effects(i) /\ "modelError" \notin Effects(i)
    /\ MandatoryArtifactsWritten(i)

\* The errors the first mandatory stage of invocation i that failed raises.
FirstFailure(i) ==
    IF call[i].name \notin ToolNames THEN {"UnknownTool"}
    ELSE IF ~SchemaOf(call[i].name, call[i].args) THEN {"InvalidArguments"}
    ELSE IF "ensureDir" \notin Effects(i) THEN {"FsError"}
    ELSE IF call[i].name # "generate-thinking" /\ "loaded" \notin Effects(i) THEN LoadErrors
    ELSE IF call[i].name # "generate-thinking" /\ local[i].rows = 0 THEN {"EmptySource"}
    ELSE IF /\ call[i].name = "visualize-data"
            /\ Len(ColumnsToVisualize(call[i].args, local[i].cols)) < 2
         THEN {"InsufficientColumns"}
    ELSE IF "modelError" \in Effects(i) THEN {"ModelCallFailed"}
    ELSE {"FsError"}

\* C37: an invocation that has ended answered with a success response exactly
\* when all its mandatory stages succeeded; otherwise it threw, and the error
\* thrown is the one of the first mandatory stage that failed.
C37_SuccessIffMandatoryStages ==
    \A i \in Calls :
        pc[i] = "done" =>
            /\ out[i].status \in {"ok", "error"}
            /\ out[i].status = "ok" <=> MandatoryStagesSucceeded(i)
            /\ out[i].status = "error" => out[i].error \in FirstFailure(i)

\* An analysis whose second model call failed after the first part was saved.
C37_Witness ==
    \E i \in Calls :
        /\ pc[i] = "done"
        /\ call[i].name = "analyze-csv"
        /\ PartFile(SaveDir(call[i].args), local[i].timestamp, 1) \in files
        /\ "modelError" \in Effects(i)
        /\ out[i].status = "error" /\ out[i].error = "ModelCallFailed"

\* ------------------------------------------------------------------------
\* Caller-supplied column names
\* ------------------------------------------------------------------------
\* Invocation i is a visualize-data call with a caller-supplied list of at
\* least 2 names whose source gave a non-empty row set.
ListedColumnsLoaded(i) ==
    /\ call[i].name = "visualize-data"
    /\ call[i].args.columns.kind = "array"
    /\ Len(call[i].args.columns.items) >= 2
    /\ "loaded" \in Effects(i)
    /\ local[i].rows > 0

\* A name of the caller's list is no column of the row set.
ListsUnknownColumn(i) ==
    \E k \in 1..Len(call[i].args.columns.items) :
        \A j \in 1..Len(local[i].cols) : call[i].args.columns.items[k] # local[i].cols[j]

\* C40 (as claimed): for every non-empty row set and every caller-supplied list
\* of at least 2 names the invocation reaches ConfigWritten and ends in a
\* success response, whether or not the names are columns of the row set.
C40_ListedNamesAlwaysSucceed ==
    \A i \in Calls :
        (ListedColumnsLoaded(i) /\ pc[i] = "done")
            => ConfigWritten(i) /\ out[i].status = "ok"

\* C40 (amended): the names are not checked against the row set: the column
\* test passes and the configuration write is attempted whatever the names
\* are; the invocation never ends in InsufficientColumns, it reaches
\* ConfigWritten and ends in a success response exactly when that write
\* succeeds, and otherwise throws the write's error.
C40_ListedNamesNotChecked ==
    \A i \in Calls :
        ListedColumnsLoaded(i) =>
            /\ "write" \in Effects(i)
            /\ pc[i] \in {"render", "upload", "sign"} => ConfigWritten(i)
            /\ pc[i] = "done" =>
                 /\ out[i].status = "ok" <=> ConfigWritten(i)
                 /\ out[i].status = "ok" => out[i].configPath = ConfigOf(i)
                 /\ out[i].status # "ok"
                      => out[i].status = "error" /\ out[i].error = "FsError"

\* A list that names no column of the row set ended in a success response.
C40_Witness ==
    \E i \in Calls :
        /\ ListedColumnsLoaded(i)
        /\ ListsUnknownColumn(i)
        /\ call[i].args.columns.items = <<"zz", "zz">>
        /\ pc[i] = "done"
        /\ ConfigWritten(i)
        /\ out[i].status = "ok"

====
